---- MODULE Spec2Model ----
(***************************************************************************)
(* Key-rotating reverse proxy (service-pollinations-key-swap).             *)
(*                                                                         *)
(* State: the api_keys, service_tokens and request_log tables of the       *)
(* SQLite store (db/database.py), and the local state of each in-flight    *)
(* run of api/server.py proxy_handler.  All coroutines share one aiosqlite *)
(* connection, so every db.execute is one atomic step visible to all.      *)
(* Balances are counted in tenths of a pollen unit.                        *)
(***************************************************************************)
EXTENDS Integers, Sequences, FiniteSets, TLC

\* ---- bounds of the model ------------------------------------------------
\* NumKeys: keys in the pool of a handler run; SelKeys: keys in the pool of
\* a direct get_active_key call; MaxBalance: highest balance, in tenths.
NumKeys == 4
SelKeys == 3
MaxBalance == 2
\* RouteKeys: keys in the pool of a routed handler run; MaxTunnels: tunnel
\* ids given out before such a run.
RouteKeys == 2
MaxTunnels == 2
\* MaxStoreOps: calls of the store's operations in one run.
MaxStoreOps == 5
\* MaxOps: tunnel handlers the administrator starts plus cycles of
\* balance_check_loop, in one run of the supervisor.
MaxOps == 3
\* LoopKeys: keys of the pool balance_check_loop sweeps.
LoopKeys == 2
\* RaceKeys: keys of the pool two concurrent requests rotate over.
RaceKeys == 2
\* PoolOps: loop cycles and administrator commands run beside the requests.
PoolOps == 1
\* MaxUrls: URLs in a list handed to generate_xray_config on its own.
MaxUrls == 2
\* MaxHeaders: header lines of a request handed to _forward_headers.
MaxHeaders == 2

\* ---- program constants --------------------------------------------------
\* NULL / None
NULL == -1
\* in results: the call raised instead of returning a status
RAISED == 0
\* settings.balance_threshold, default 0.1
BALANCE_THRESHOLD == 1
\* Variant: a loop of four passes.
MAX_ATTEMPTS_mut == 3 + 1

\* for _attempt in range(3)
MAX_ATTEMPTS == 3
\* port = 10801 + i: the first local SOCKS port
BASE_PORT == 10801

\* One run of proxy_handler.
\* The requests in flight at once: aiohttp runs proxy_handler as one task
\* per request.
Requests == {1, 2}
Balances == {NULL} \cup (0..MaxBalance)
UpstreamStatuses == {200, 400, 402}
Paths == {"/health", "/status", "/v1/chat"}
\* An Authorization header value, split at character 7:
\* <<auth[:7], auth[7:]>>.  An absent header reads as "".
AuthHeaders ==
    {<<"", "">>, <<"Basic d", "G9rQQ==">>, <<"bearer ", "tokA">>} \cup
    ({"Bearer "} \X {"tokA", "tokB", "tokX"})

NoRow == [id |-> NULL, key_index |-> NULL, vless_id |-> NULL,
          is_active |-> FALSE, pollen_balance |-> NULL]

VARIABLES
    api_keys,        \* table api_keys: id -> row
    service_tokens,  \* table service_tokens: id -> row
    request_log,     \* table request_log, in insertion order
    pc,              \* per request: position in proxy_handler
    path,            \* per request: request.path
    auth,            \* per request: Authorization header
    token,           \* per request: token["id"] of the authenticated token
    tried_keys,      \* per request: tried_keys
    attempt,         \* per request: _attempt
    key_data,        \* per request: key_data (row snapshot)
    upstream_status, \* per request: upstream_resp.status
    response,        \* per request: the response the handler returned
    calls,           \* history: key ids of the upstream calls issued
    results,         \* history: what the upstream answered to each call
    raised,          \* history: an exception was raised inside the try block
    keys0,           \* history: api_keys when the system started
    log_req,         \* history: the request that inserted each request_log row
    sel,             \* a direct call of a function and its result
    connector,       \* history: the connector of each upstream call
    vless_configs,   \* table vless_configs: id -> row
    sqlite_sequence, \* AUTOINCREMENT: the highest id each table has given
    env,             \* settings.vless_configs (VLESS_CONFIGS)
    task,            \* per task: the operation it runs and its locals
    nops,            \* operations the administrator has started
    ncycles,         \* cycles balance_check_loop has started
    _xray_process,   \* services/vless.py _xray_process: a handle or None
    _xray_tunnel_count, \* services/vless.py _xray_tunnel_count
    procs,           \* the processes launched so far, by handle
    config_file      \* contents of /tmp/xray_config.json

vars == <<api_keys, service_tokens, request_log, pc, path, auth, token,
          tried_keys, attempt, key_data, upstream_status, response,
          calls, results, raised, keys0, log_req, sel, connector,
          vless_configs, sqlite_sequence, env, task, nops, ncycles,
          _xray_process, _xray_tunnel_count, procs, config_file>>

reqvars == <<pc, path, auth, token, tried_keys, attempt, key_data,
             upstream_status, response, calls, results, raised>>

\* What the store's operations leave alone.
proxyvars == <<service_tokens, request_log, reqvars, keys0, log_req, sel,
               connector>>
xrayvars == <<_xray_process, _xray_tunnel_count, procs, config_file>>

\* The tunnel table, the tasks outside proxy_handler and the daemon.
adminvars == <<vless_configs, sqlite_sequence, env, task, nops, ncycles,
               _xray_process, _xray_tunnel_count, procs, config_file>>


\* ---- db/models.py -------------------------------------------------------

\* Variant: a strict comparison with the threshold.
Eligible_mut(keys, threshold) ==
    {id \in DOMAIN keys :
        /\ keys[id].is_active
        /\ \/ keys[id].pollen_balance = NULL
           \/ keys[id].pollen_balance > threshold}

\* WHERE k.is_active = 1
\*   AND (k.pollen_balance IS NULL OR k.pollen_balance >= ?)
Eligible(keys, threshold) ==
    {id \in DOMAIN keys :
        /\ keys[id].is_active
        /\ \/ keys[id].pollen_balance = NULL
           \/ /\ keys[id].pollen_balance # NULL
              /\ keys[id].pollen_balance >= threshold}

\* SQLite sorts NULL below every value, so DESC puts NULL balances last.
SortKey(balance) == IF balance = NULL THEN -1 ELSE balance

Orderings(S) ==
    {s \in [1..Cardinality(S) -> S] :
        \A i, j \in 1..Cardinality(S) : i # j => s[i] # s[j]}

\* ORDER BY k.pollen_balance DESC: every row order the clause admits.  The
\* clause names no second sort key, so rows of equal balance come in an
\* order the query does not fix.
QueryRows(keys, threshold) ==
    {s \in Orderings(Eligible(keys, threshold)) :
        \A i, j \in 1..Len(s) :
            i < j => SortKey(keys[s[i]].pollen_balance)
                        >= SortKey(keys[s[j]].pollen_balance)}

\* for row in rows: if exclude_ids and row["id"] in exclude_ids: continue
RECURSIVE FirstNotExcluded(_, _, _)
FirstNotExcluded(keys, rows, exclude_ids) ==
    IF rows = <<>> THEN NoRow
    ELSE IF exclude_ids # {} /\ rows[1] \in exclude_ids
         THEN FirstNotExcluded(keys, Tail(rows), exclude_ids)
         ELSE keys[rows[1]]

\* The set of values get_active_key may return.
get_active_key(keys, balance_threshold, exclude_ids) ==
    {FirstNotExcluded(keys, rows, exclude_ids) :
        rows \in QueryRows(keys, balance_threshold)}

\* Variant: an UPDATE without its WHERE clause.
deactivate_key_mut(keys, key_id) ==
    [id \in DOMAIN keys |-> [keys[id] EXCEPT !.is_active = FALSE]]

\* UPDATE api_keys SET is_active = 0 WHERE id = ?
deactivate_key(keys, key_id) ==
    [id \in DOMAIN keys |->
        IF id = key_id THEN [keys[id] EXCEPT !.is_active = FALSE]
        ELSE keys[id]]

\* Variant: the balance is not written.
update_key_balance_mut(keys, key_id, balance) == keys

\* UPDATE api_keys SET pollen_balance = ?, next_reset_at = ?,
\*   balance_checked_at = datetime('now') WHERE id = ?
\* (of the three columns the model keeps the balance).
update_key_balance(keys, key_id, balance) ==
    [id \in DOMAIN keys |->
        IF id = key_id THEN [keys[id] EXCEPT !.pollen_balance = balance]
        ELSE keys[id]]

\* Variant: the lookup ignores is_active.
get_token_by_value_mut(tokens, value) ==
    IF \E id \in DOMAIN tokens : tokens[id].token = value
    THEN CHOOSE id \in DOMAIN tokens : tokens[id].token = value
    ELSE NULL

\* SELECT * FROM service_tokens WHERE token = ? AND is_active = 1
\* (token is UNIQUE); the id of the row, or NULL.
get_token_by_value(tokens, value) ==
    IF \E id \in DOMAIN tokens :
          tokens[id].token = value /\ tokens[id].is_active
    THEN CHOOSE id \in DOMAIN tokens :
          tokens[id].token = value /\ tokens[id].is_active
    ELSE NULL

\* INSERT INTO request_log (path, method, status, key_id, token_id); the
\* method is passed through unread and is left out of the row.
add_request_log(log, p, status, key_id, token_id) ==
    Append(log, [path |-> p, status |-> status, key_id |-> key_id,
                 token_id |-> token_id])

\* ---- api/server.py ------------------------------------------------------

\* Variant: every error status counts as exhaustion.
IsExhausted_mut(status) == status >= 400

\* if upstream_resp.status == 402
IsExhausted(status) == status = 402

\* f"error_{upstream_resp.status}"
ErrorTag(status) ==
    CASE status = 400 -> "error_400"
      [] status = 402 -> "error_402"
      [] OTHER -> "error_other"

\* Variant: 400 counts as a success.
status_str_mut(status) == IF status <= 400 THEN "ok" ELSE ErrorTag(status)

\* "ok" if upstream_resp.status < 400 else f"error_{upstream_resp.status}"
status_str(status) == IF status < 400 THEN "ok" ELSE ErrorTag(status)

\* _authenticate: the id of the token, or NULL when the answer is 401
_authenticate(tokens, header) ==
    IF header[1] # "Bearer " THEN NULL
    ELSE get_token_by_value(tokens, header[2])


\* LEFT JOIN vless_configs v ON k.vless_id = v.id, v.config_index AS
\* vless_config_index: NULL when the key is unbound or no row has that id.
\* The join does not look at v.is_active.
vless_config_index(vless, vless_id) ==
    IF vless_id # NULL /\ vless_id \in DOMAIN vless
    THEN vless[vless_id].config_index
    ELSE NULL

\* ---- db/models.py: admission, binding and removal ---------------------------

MaxOf(S) == CHOOSE m \in S : \A x \in S : x <= m

\* SELECT COALESCE(MAX(key_index), -1) + 1 FROM api_keys
next_key_index(keys) ==
    (IF DOMAIN keys = {} THEN -1
     ELSE MaxOf({keys[id].key_index : id \in DOMAIN keys})) + 1

\* SELECT COALESCE(MAX(config_index), -1) + 1 FROM vless_configs
next_config_index(vless) ==
    (IF DOMAIN vless = {} THEN -1
     ELSE MaxOf({vless[id].config_index : id \in DOMAIN vless})) + 1

\* The row an INSERT INTO api_keys (key, key_index, vless_id) creates: the
\* other columns take their defaults.
NewKeyRow(id, key, key_index, vless_id) ==
    [id |-> id, key |-> key, key_index |-> key_index, vless_id |-> vless_id,
     is_active |-> TRUE, pollen_balance |-> NULL]

\* Variant: INSERT OR REPLACE, the row of the same key gives way.
insert_api_key_mut(keys, seq, key, key_index, vless_id) ==
    [id \in {x \in DOMAIN keys : keys[x].key # key} \cup {seq + 1} |->
        IF id = seq + 1 THEN NewKeyRow(seq + 1, key, key_index, vless_id)
        ELSE keys[id]]

\* INSERT OR IGNORE INTO api_keys (key, key_index, vless_id): key is UNIQUE,
\* id is AUTOINCREMENT.
insert_api_key(keys, seq, key, key_index, vless_id) ==
    IF \E id \in DOMAIN keys : keys[id].key = key THEN keys
    ELSE [id \in DOMAIN keys \cup {seq + 1} |->
            IF id = seq + 1 THEN NewKeyRow(seq + 1, key, key_index, vless_id)
            ELSE keys[id]]

\* INSERT OR IGNORE INTO vless_configs (url, remark, config_index): url is
\* UNIQUE, id is AUTOINCREMENT, is_active defaults to 1.
insert_vless(vless, seq, url, config_index) ==
    IF \E id \in DOMAIN vless : vless[id].url = url THEN vless
    ELSE [id \in DOMAIN vless \cup {seq + 1} |->
            IF id = seq + 1
            THEN [id |-> seq + 1, url |-> url, is_active |-> TRUE,
                  config_index |-> config_index]
            ELSE vless[id]]

\* The AUTOINCREMENT counter after an insert that turned table old into new.
seq_after(seq, old, new) == IF DOMAIN new = DOMAIN old THEN seq ELSE seq + 1

\* DELETE FROM <table> WHERE id = ?
delete_row(table, row_id) ==
    [id \in DOMAIN table \ {row_id} |-> table[id]]

\* UPDATE api_keys SET vless_id = ? WHERE id = ?  (the foreign key of the
\* column is not enforced: the connection never sets PRAGMA foreign_keys)
bind_key_to_vless(keys, key_id, vless_id) ==
    [id \in DOMAIN keys |->
        IF id = key_id THEN [keys[id] EXCEPT !.vless_id = vless_id]
        ELSE keys[id]]

\* UPDATE api_keys SET vless_id = NULL WHERE vless_id = ?
unbind_keys(keys, vless_id) ==
    [id \in DOMAIN keys |->
        IF keys[id].vless_id = vless_id
        THEN [keys[id] EXCEPT !.vless_id = NULL]
        ELSE keys[id]]

\* ---- services/vless.py: descriptors and the daemon's configuration ----------
\* A URL is the sequence of its characters; a run of characters that holds
\* none of "#", "@", "?", ":", "&", "=" may stand as one element
\* ("vless://", "u", "ws").

\* vless://u@<n>: a URL the parser accepts, of host n.
Url(n) == <<"vless://", "u", "@", ToString(n)>>
\* A URL of another scheme.
BadUrl(n) == <<"http://", "u", "@", ToString(n)>>

\* parse_vless_url returned None
NoDescriptor == [none |-> TRUE]

\* int(port_str) raised ValueError, which nothing in vless.py catches
ValueError == [raised |-> "ValueError"]

\* The position of the first (last) c in s, 0 when there is none:
\* "c in s", s.split(c, 1), s.rsplit(c, 1).
FirstIndex(s, c) ==
    IF \E i \in DOMAIN s : s[i] = c
    THEN CHOOSE i \in DOMAIN s :
            s[i] = c /\ \A j \in DOMAIN s : s[j] = c => i <= j
    ELSE 0

LastIndex(s, c) ==
    IF \E i \in DOMAIN s : s[i] = c
    THEN CHOOSE i \in DOMAIN s :
            s[i] = c /\ \A j \in DOMAIN s : s[j] = c => j <= i
    ELSE 0

\* s.split(c)
RECURSIVE SplitOn(_, _)
SplitOn(s, c) ==
    IF FirstIndex(s, c) = 0 THEN <<s>>
    ELSE <<SubSeq(s, 1, FirstIndex(s, c) - 1)>>
            \o SplitOn(SubSeq(s, FirstIndex(s, c) + 1, Len(s)), c)

Digits == <<"0", "1", "2", "3", "4", "5", "6", "7", "8", "9">>

\* int(s) returns for s: one decimal digit at least and nothing else.
IsNumeral(s) ==
    /\ s # <<>>
    /\ \A i \in DOMAIN s : \E d \in DOMAIN Digits : Digits[d] = s[i]

\* int(s) for such an s
RECURSIVE int(_)
int(s) ==
    IF s = <<>> THEN 0
    ELSE 10 * int(SubSeq(s, 1, Len(s) - 1))
            + (CHOOSE d \in DOMAIN Digits : Digits[d] = s[Len(s)]) - 1

\* parse_qs(query_string): the name=value fields between "&"; a field
\* without "=" or with an empty value is dropped.
ParamFields(query_string) ==
    SelectSeq(SplitOn(query_string, "&"),
              LAMBDA f : /\ FirstIndex(f, "=") # 0
                         /\ FirstIndex(f, "=") < Len(f))

\* params.get(name, default) with params = {k: v[0] ...}: the value of the
\* first field of that name.
Param(query_string, name, default) ==
    LET fields == ParamFields(query_string)
        named == {i \in DOMAIN fields :
                     SubSeq(fields[i], 1, FirstIndex(fields[i], "=") - 1)
                        = name}
    IN IF named = {} THEN default
       ELSE LET f == fields[CHOOSE i \in named : \A j \in named : i <= j]
            IN SubSeq(f, FirstIndex(f, "=") + 1, Len(f))

\* The descriptor of url, NoDescriptor, or ValueError when int(port_str)
\* raises.  (Of the descriptor's keys the model keeps those the inbound,
\* the vnext entry and the choice of transport and security read.)
parse_vless_url(url) ==
    IF url = <<>> \/ Head(url) # "vless://" THEN NoDescriptor
    ELSE LET hash == LastIndex(url, "#")
             nofrag == IF hash = 0 THEN url ELSE SubSeq(url, 1, hash - 1)
             remark == IF hash = 0 THEN <<>>
                       ELSE SubSeq(url, hash + 1, Len(url))
             without_scheme == Tail(nofrag)
             at == FirstIndex(without_scheme, "@")
             uuid_part == SubSeq(without_scheme, 1, at - 1)
             rest == SubSeq(without_scheme, at + 1, Len(without_scheme))
             q == FirstIndex(rest, "?")
             host_port == IF q = 0 THEN rest ELSE SubSeq(rest, 1, q - 1)
             query_string == IF q = 0 THEN <<>>
                             ELSE SubSeq(rest, q + 1, Len(rest))
             colon == LastIndex(host_port, ":")
             port_str == SubSeq(host_port, colon + 1, Len(host_port))
         IN IF at = 0 THEN NoDescriptor
            ELSE IF colon # 0 /\ ~IsNumeral(port_str) THEN ValueError
            ELSE [uuid |-> uuid_part,
                  host |-> IF colon = 0 THEN host_port
                           ELSE SubSeq(host_port, 1, colon - 1),
                  port |-> IF colon = 0 THEN 443 ELSE int(port_str),
                  remark |-> remark,
                  type |-> Param(query_string, <<"type">>, <<"tcp">>),
                  security |->
                      Param(query_string, <<"security">>, <<"none">>)]

\* stream = {"network": network} plus the settings of a ws, grpc or tcp
\* transport ("" for none), and the security: tls, reality, else none.
_build_stream_settings(cfg) ==
    [network |-> cfg.type,
     settings |-> IF cfg.type = <<"ws">> THEN "wsSettings"
                  ELSE IF cfg.type = <<"grpc">> THEN "grpcSettings"
                  ELSE IF cfg.type = <<"tcp">> THEN "tcpSettings"
                  ELSE "",
     security |-> IF cfg.security \in {<<"tls">>, <<"reality">>}
                  THEN cfg.security
                  ELSE <<"none">>]

\* configs: the descriptors of the URLs the parser accepts, in list order.
RECURSIVE ParsedConfigs(_)
ParsedConfigs(vless_urls) ==
    IF vless_urls = <<>> THEN <<>>
    ELSE IF parse_vless_url(Head(vless_urls)) # NoDescriptor
         THEN <<parse_vless_url(Head(vless_urls))>>
                  \o ParsedConfigs(Tail(vless_urls))
         ELSE ParsedConfigs(Tail(vless_urls))

\* {}: generate_xray_config has no descriptor (and: no file written yet)
NoConfig == [inbounds |-> <<>>, outbounds |-> <<>>, rules |-> <<>>]

\* The configuration: inbound, outbound and rule number i (from 0) carry the
\* tags socks-in-i and vless-i, the inbound listens on 10801 + i and the
\* outbound leads to the i-th descriptor.  ValueError when the parser raises
\* on a URL of the list.
generate_xray_config(vless_urls) ==
    IF \E i \in DOMAIN vless_urls : parse_vless_url(vless_urls[i]) = ValueError
    THEN ValueError
    ELSE IF ParsedConfigs(vless_urls) = <<>> THEN NoConfig
    ELSE LET configs == ParsedConfigs(vless_urls) IN
         [inbounds |->
             [i \in 1..Len(configs) |->
                 [tag |-> <<"socks-in", i - 1>>,
                  port |-> BASE_PORT + (i - 1),
                  listen |-> "127.0.0.1"]],
          outbounds |->
             [i \in 1..Len(configs) |->
                 [tag |-> <<"vless", i - 1>>,
                  address |-> configs[i].host,
                  port |-> configs[i].port,
                  id |-> configs[i].uuid,
                  streamSettings |-> _build_stream_settings(configs[i])]],
          rules |->
             [i \in 1..Len(configs) |->
                 [inboundTag |-> <<"socks-in", i - 1>>,
                  outboundTag |-> <<"vless", i - 1>>]]]

\* SELECT url FROM vless_configs WHERE is_active = 1 ORDER BY config_index:
\* the set of lists the query may return (rows of equal config_index come
\* in an order the query does not fix).
get_active_vless_urls(vless) ==
    {[i \in 1..Len(o) |-> vless[o[i]].url] :
        o \in {s \in Orderings({id \in DOMAIN vless : vless[id].is_active}) :
                  \A i, j \in 1..Len(s) :
                      i < j => vless[s[i]].config_index
                                  <= vless[s[j]].config_index}}

\* ---- services/vless.py: the daemon's handle --------------------------------

\* _xray_process is not None and _xray_process.returncode is None
is_xray_running ==
    /\ _xray_process # NULL
    /\ procs[_xray_process].alive

\* ---- api/server.py: the connector of an upstream call ----------------------

\* Variant: the daemon's state is not consulted.
_get_connector_mut(index) ==
    IF index = NULL THEN NULL ELSE BASE_PORT + index

\* The SOCKS port of the ProxyConnector, or NULL for a direct connection.
_get_connector(index) ==
    IF ~is_xray_running \/ index = NULL THEN NULL
    ELSE BASE_PORT + index

\* ---- tasks outside proxy_handler -------------------------------------------

\* main(): start-up; admin1, admin2: handlers of the administrator's
\* updates (aiogram runs each update as its own task); loop:
\* balance_check_loop.
Tasks == {"main", "admin1", "admin2", "loop"}

\* A task that runs nothing; the fields are the locals of the operations.
Idle == [op |-> "idle", pc |-> "idle", key |-> NULL, key_id |-> NULL,
         vless_id |-> NULL, url |-> NULL, next_index |-> NULL,
         urls |-> <<>>, ok |-> "None", h |-> NULL, i |-> 0,
         existing_urls |-> {}, keys |-> <<>>]


\* ---- initial states -----------------------------------------------------

\* Pools of up to max keys admitted in order (ids 1..n, key_index = id - 1),
\* each key in one of the given states.
PoolsOver(max, states) ==
    UNION {
        {[id \in 1..n |-> [id |-> id, key_index |-> id - 1,
                           vless_id |-> NULL,
                           is_active |-> g[id].a,
                           pollen_balance |-> g[id].b]] :
            g \in [1..n -> states]} :
        n \in 0..max}

\* Every combination of active flag and balance.
KeyStates == [a : BOOLEAN, b : Balances]

\* The pools a handler run starts from.  An active key has a balance that is
\* unknown, zero, exactly the threshold or the highest; an inactive key has
\* the highest balance (the key the query must still skip; inactive keys of
\* balance 0 arise in the run, from the 402 branch).
HandlerKeyStates ==
    [a : {TRUE}, b : {NULL, 0, BALANCE_THRESHOLD, MaxBalance}] \cup
    [a : {FALSE}, b : {MaxBalance}]

Pools == PoolsOver(NumKeys, HandlerKeyStates)

Tokens ==
    (1 :> [id |-> 1, token |-> "tokA", is_active |-> TRUE]) @@
    (2 :> [id |-> 2, token |-> "tokB", is_active |-> FALSE])

NoSel == [exclude_ids |-> {}, called |-> FALSE, result |-> NoRow]

InitRequests ==
    /\ pc = [r \in Requests |-> "idle"]
    /\ path = [r \in Requests |-> ""]
    /\ auth = [r \in Requests |-> <<"", "">>]
    /\ token = [r \in Requests |-> NULL]
    /\ tried_keys = [r \in Requests |-> {}]
    /\ attempt = [r \in Requests |-> 0]
    /\ key_data = [r \in Requests |-> NoRow]
    /\ upstream_status = [r \in Requests |-> NULL]
    /\ response = [r \in Requests |-> <<>>]
    /\ calls = [r \in Requests |-> <<>>]
    /\ connector = [r \in Requests |-> <<>>]
    /\ results = [r \in Requests |-> <<>>]
    /\ raised = [r \in Requests |-> FALSE]

\* No tunnel is stored, no task runs and the daemon was never launched.
InitAdmin ==
    /\ vless_configs = <<>>
    /\ sqlite_sequence = [api_keys |-> Cardinality(DOMAIN api_keys),
                          vless_configs |-> 0]
    /\ env = <<>>
    /\ task = [t \in Tasks |-> Idle]
    /\ nops = 0
    /\ ncycles = 0
    /\ _xray_process = NULL
    /\ _xray_tunnel_count = 0
    /\ procs = <<>>
    /\ config_file = NoConfig

Init ==
    /\ api_keys \in Pools
    /\ InitAdmin
    /\ keys0 = api_keys
    /\ service_tokens = Tokens
    /\ request_log = <<>>
    /\ log_req = <<>>
    /\ InitRequests
    /\ sel = NoSel

\* ---- proxy_handler, one action per await ---------------------------------

\* Entry: control routes, _authenticate, then the rotation loop starts.
Receive(r, p, a) ==
    /\ pc[r] = "idle"
    /\ path' = [path EXCEPT ![r] = p]
    /\ auth' = IF p \in {"/health", "/status"} THEN auth
               ELSE [auth EXCEPT ![r] = a]
    /\ IF p \in {"/health", "/status"}
       THEN /\ response' = [response EXCEPT ![r] =
                               <<[status |-> 200, key_id |-> NULL]>>]
            /\ pc' = [pc EXCEPT ![r] = "done"]
            /\ UNCHANGED token
       ELSE IF _authenticate(service_tokens, a) = NULL
       THEN /\ response' = [response EXCEPT ![r] =
                               <<[status |-> 401, key_id |-> NULL]>>]
            /\ pc' = [pc EXCEPT ![r] = "done"]
            /\ UNCHANGED token
       ELSE /\ token' = [token EXCEPT ![r] =
                            _authenticate(service_tokens, a)]
            /\ pc' = [pc EXCEPT ![r] = "select"]
            /\ UNCHANGED response
    /\ UNCHANGED <<api_keys, service_tokens, request_log, tried_keys,
                   attempt, key_data, upstream_status, calls, results,
                   raised, keys0, log_req, sel,
                   connector, adminvars>>

\* key_data = await get_active_key(threshold, exclude_ids=tried_keys);
\* break when there is none, else tried_keys.add, connector =
\* _get_connector(key_data.get("vless_config_index")) and the upstream call
\* is issued.
SelectKey(r) ==
    /\ pc[r] = "select"
    /\ attempt[r] < MAX_ATTEMPTS
    /\ \E kd \in get_active_key(api_keys, BALANCE_THRESHOLD, tried_keys[r]) :
        IF kd = NoRow
        THEN /\ pc' = [pc EXCEPT ![r] = "no_keys"]
             /\ UNCHANGED <<key_data, tried_keys, calls, connector>>
        ELSE /\ key_data' = [key_data EXCEPT ![r] = kd]
             /\ tried_keys' = [tried_keys EXCEPT ![r] = @ \cup {kd.id}]
             /\ calls' = [calls EXCEPT ![r] = Append(@, kd.id)]
             /\ connector' = [connector EXCEPT ![r] = Append(@,
                    _get_connector(
                        vless_config_index(vless_configs, kd.vless_id)))]
             /\ pc' = [pc EXCEPT ![r] = "upstream"]
    /\ UNCHANGED <<api_keys, service_tokens, request_log, path, auth, token,
                   attempt, upstream_status, response, results, raised,
                   keys0, log_req, sel, adminvars>>

\* session.request(...) yields a response with some status.
UpstreamResponds(r, s) ==
    /\ pc[r] = "upstream"
    /\ upstream_status' = [upstream_status EXCEPT ![r] = s]
    /\ results' = [results EXCEPT ![r] = Append(@, s)]
    /\ pc' = [pc EXCEPT ![r] = IF IsExhausted(s) THEN "deactivate"
                                ELSE "log_status"]
    /\ UNCHANGED <<api_keys, service_tokens, request_log, path, auth, token,
                   tried_keys, attempt, key_data, response, calls, raised,
                   keys0, log_req, sel,
                   connector, adminvars>>

\* session.request(...) raises (connect failure, timeout, protocol error).
UpstreamRaises(r) ==
    /\ pc[r] = "upstream"
    /\ results' = [results EXCEPT ![r] = Append(@, RAISED)]
    /\ raised' = [raised EXCEPT ![r] = TRUE]
    /\ pc' = [pc EXCEPT ![r] = "log_exception"]
    /\ UNCHANGED <<api_keys, service_tokens, request_log, path, auth, token,
                   tried_keys, attempt, key_data, upstream_status, response,
                   calls, keys0, log_req, sel,
                   connector, adminvars>>

\* Variant: the statement flips the flag (is_active = 1 - is_active).
DeactivateKey_mut(r) ==
    /\ pc[r] = "deactivate"
    /\ api_keys' = [api_keys EXCEPT ![key_data[r].id].is_active = ~@]
    /\ pc' = [pc EXCEPT ![r] = "zero_balance"]
    /\ UNCHANGED <<service_tokens, request_log, path, auth, token,
                   tried_keys, attempt, key_data, upstream_status, response,
                   calls, results, raised, keys0, log_req, sel,
                   connector, adminvars>>

\* await models.deactivate_key(key_data["id"])
DeactivateKey(r) ==
    /\ pc[r] = "deactivate"
    /\ api_keys' = deactivate_key(api_keys, key_data[r].id)
    /\ pc' = [pc EXCEPT ![r] = "zero_balance"]
    /\ UNCHANGED <<service_tokens, request_log, path, auth, token,
                   tried_keys, attempt, key_data, upstream_status, response,
                   calls, results, raised, keys0, log_req, sel,
                   connector, adminvars>>

\* await models.update_key_balance(key_data["id"], 0)
ZeroBalance(r) ==
    /\ pc[r] = "zero_balance"
    /\ api_keys' = update_key_balance(api_keys, key_data[r].id, 0)
    /\ pc' = [pc EXCEPT ![r] = "log_exhausted"]
    /\ UNCHANGED <<service_tokens, request_log, path, auth, token,
                   tried_keys, attempt, key_data, upstream_status, response,
                   calls, results, raised, keys0, log_req, sel,
                   connector, adminvars>>

\* await models.add_request_log(..., "key_exhausted", ...); continue.
\* The for loop over range(3) ends after its third pass.
LogExhausted(r) ==
    /\ pc[r] = "log_exhausted"
    /\ request_log' = add_request_log(request_log, path[r], "key_exhausted",
                                      key_data[r].id, token[r])
    /\ attempt' = [attempt EXCEPT ![r] = @ + 1]
    /\ pc' = [pc EXCEPT ![r] = IF attempt[r] + 1 < MAX_ATTEMPTS
                                THEN "select" ELSE "no_keys"]
    /\ log_req' = Append(log_req, r)
    /\ UNCHANGED <<api_keys, service_tokens, path, auth, token, tried_keys,
                   key_data, upstream_status, response, calls, results,
                   raised, keys0, sel,
                   connector, adminvars>>

\* await models.add_request_log(..., status_str, ...)
LogStatus(r) ==
    /\ pc[r] = "log_status"
    /\ request_log' = add_request_log(request_log, path[r],
                                      status_str(upstream_status[r]),
                                      key_data[r].id, token[r])
    /\ pc' = [pc EXCEPT ![r] = "relay"]
    /\ log_req' = Append(log_req, r)
    /\ UNCHANGED <<api_keys, service_tokens, path, auth, token, tried_keys,
                   attempt, key_data, upstream_status, response, calls,
                   results, raised, keys0, sel,
                   connector, adminvars>>

\* return await _proxy_response(upstream_resp, request)
Relay(r) ==
    /\ pc[r] = "relay"
    /\ response' = [response EXCEPT ![r] =
                       Append(@, [status |-> upstream_status[r],
                                  key_id |-> key_data[r].id])]
    /\ pc' = [pc EXCEPT ![r] = "done"]
    /\ UNCHANGED <<api_keys, service_tokens, request_log, path, auth, token,
                   tried_keys, attempt, key_data, upstream_status, calls,
                   results, raised, keys0, log_req, sel,
                   connector, adminvars>>

\* _proxy_response raises while it reads the upstream body; the call sits
\* inside the try block.
RelayRaises(r) ==
    /\ pc[r] = "relay"
    /\ raised' = [raised EXCEPT ![r] = TRUE]
    /\ pc' = [pc EXCEPT ![r] = "log_exception"]
    /\ UNCHANGED <<api_keys, service_tokens, request_log, path, auth, token,
                   tried_keys, attempt, key_data, upstream_status, response,
                   calls, results, keys0, log_req, sel,
                   connector, adminvars>>

\* Variant: the except branch also deactivates the key.
LogException_mut(r) ==
    /\ pc[r] = "log_exception"
    /\ api_keys' = deactivate_key(api_keys, key_data[r].id)
    /\ request_log' = add_request_log(request_log, path[r], "exception",
                                      key_data[r].id, token[r])
    /\ response' = [response EXCEPT ![r] =
                       Append(@, [status |-> 502, key_id |-> NULL])]
    /\ pc' = [pc EXCEPT ![r] = "done"]
    /\ log_req' = Append(log_req, r)
    /\ UNCHANGED <<service_tokens, path, auth, token, tried_keys,
                   attempt, key_data, upstream_status, calls, results,
                   raised, keys0, sel,
                   connector, adminvars>>

\* except Exception: add_request_log(..., "exception", ...); return 502
LogException(r) ==
    /\ pc[r] = "log_exception"
    /\ request_log' = add_request_log(request_log, path[r], "exception",
                                      key_data[r].id, token[r])
    /\ response' = [response EXCEPT ![r] =
                       Append(@, [status |-> 502, key_id |-> NULL])]
    /\ pc' = [pc EXCEPT ![r] = "done"]
    /\ log_req' = Append(log_req, r)
    /\ UNCHANGED <<api_keys, service_tokens, path, auth, token, tried_keys,
                   attempt, key_data, upstream_status, calls, results,
                   raised, keys0, sel,
                   connector, adminvars>>

\* add_request_log(path, method, "no_keys", token_id=token["id"]); return 503
LogNoKeys(r) ==
    /\ pc[r] = "no_keys"
    /\ request_log' = add_request_log(request_log, path[r], "no_keys",
                                      NULL, token[r])
    /\ response' = [response EXCEPT ![r] =
                       Append(@, [status |-> 503, key_id |-> NULL])]
    /\ pc' = [pc EXCEPT ![r] = "done"]
    /\ log_req' = Append(log_req, r)
    /\ UNCHANGED <<api_keys, service_tokens, path, auth, token, tried_keys,
                   attempt, key_data, upstream_status, calls, results,
                   raised, keys0, sel,
                   connector, adminvars>>

proxy_handler(r) ==
    \/ \E p \in Paths, a \in AuthHeaders : Receive(r, p, a)
    \/ SelectKey(r)
    \/ \E s \in UpstreamStatuses : UpstreamResponds(r, s)
    \/ UpstreamRaises(r)
    \/ DeactivateKey(r)
    \/ ZeroBalance(r)
    \/ LogExhausted(r)
    \/ LogStatus(r)
    \/ Relay(r)
    \/ RelayRaises(r)
    \/ LogException(r)
    \/ LogNoKeys(r)

\* One request is served.
Next == proxy_handler(1)

Spec == Init /\ [][Next]_vars


\* ---- two requests in flight ------------------------------------------------

\* Pools of one to RaceKeys active keys, each of unknown or full balance.
RacePools ==
    PoolsOver(RaceKeys, {[a |-> TRUE, b |-> NULL], [a |-> TRUE, b |-> MaxBalance]})
        \ PoolsOver(0, KeyStates)

InitRace ==
    /\ api_keys \in RacePools
    /\ InitAdmin
    /\ keys0 = api_keys
    /\ service_tokens = Tokens
    /\ request_log = <<>>
    /\ log_req = <<>>
    /\ InitRequests
    /\ sel = NoSel

\* The tasks of the two requests interleave at their awaits.
NextRace == \E r \in Requests : proxy_handler(r)

SpecRace == InitRace /\ [][NextRace]_vars

\* ---- proxy_handler over a pool with tunnel bindings -------------------------

\* Tunnel tables after MaxTunnels admissions and any removals: the row of
\* id i holds URL i and a config_index below i.
TunnelTables ==
    UNION {[S -> [id : S, url : {Url(n) : n \in S}, is_active : {TRUE},
                  config_index : 0..(MaxTunnels - 1)]] :
              S \in SUBSET (1..MaxTunnels)}

RouteTables ==
    {v \in TunnelTables :
        \A id \in DOMAIN v : /\ v[id].id = id
                             /\ v[id].url = Url(id)
                             /\ v[id].config_index < id}

\* Pools of up to RouteKeys active keys, each unbound or bound to a tunnel
\* id that was given out (the tunnel may have been removed since).
RoutePools ==
    UNION {
        {[id \in 1..n |-> [id |-> id, key_index |-> id - 1,
                           vless_id |-> g[id].v, is_active |-> TRUE,
                           pollen_balance |-> g[id].b]] :
            g \in [1..n -> [v : {NULL} \cup (1..MaxTunnels),
                            b : {NULL, MaxBalance}]]} :
        n \in 0..RouteKeys}

\* The daemon was never launched, or was launched with the configuration of
\* the stored tunnels and is alive or has exited.
InitRoute ==
    /\ api_keys \in RoutePools
    /\ keys0 = api_keys
    /\ service_tokens = Tokens
    /\ request_log = <<>>
    /\ log_req = <<>>
    /\ InitRequests
    /\ sel = NoSel
    /\ vless_configs \in RouteTables
    /\ sqlite_sequence = [api_keys |-> Cardinality(DOMAIN api_keys),
                          vless_configs |-> MaxTunnels]
    /\ env = <<>>
    /\ task = [t \in Tasks |-> Idle]
    /\ nops = 0
    /\ ncycles = 0
    /\ \E urls \in get_active_vless_urls(vless_configs) :
          \/ /\ procs = <<>>
             /\ config_file = NoConfig
             /\ _xray_tunnel_count = 0
          \/ /\ generate_xray_config(urls) # NoConfig
             /\ config_file = generate_xray_config(urls)
             /\ procs \in {<<[alive |-> a, config |-> config_file]>> :
                              a \in BOOLEAN}
             /\ _xray_tunnel_count = Len(urls)
    /\ _xray_process = IF procs = <<>> THEN NULL ELSE 1

SpecRoute == InitRoute /\ [][Next]_vars

\* ---- db/models.py operations, one action per statement ----------------------
\* A call and its first statement are one step: nothing the call does
\* before that statement runs reads shared state.

MinOf(S) == CHOOSE m \in S : \A x \in S : m <= x

\* add_api_key(key, vless_id) is called and its SELECT runs.
AddApiKeySelect(t, key, vless_id) ==
    /\ task[t] = Idle
    /\ task' = [task EXCEPT ![t] =
                  [Idle EXCEPT !.op = "add_api_key",
                               !.pc = "add_api_key_insert",
                               !.key = key, !.vless_id = vless_id,
                               !.next_index = next_key_index(api_keys)]]
    /\ UNCHANGED <<api_keys, vless_configs, sqlite_sequence, env, ncycles>>
    /\ UNCHANGED <<proxyvars, xrayvars>>

\* The INSERT OR IGNORE of add_api_key runs; the call returns next_index to
\* its caller (idx = await models.add_api_key(key, vless_id)).
AddApiKeyInsert(t) ==
    /\ task[t].pc = "add_api_key_insert"
    /\ api_keys' = insert_api_key(api_keys, sqlite_sequence.api_keys,
                                  task[t].key, task[t].next_index,
                                  task[t].vless_id)
    /\ sqlite_sequence' =
          [sqlite_sequence EXCEPT
              !.api_keys = seq_after(@, api_keys, api_keys')]
    /\ task' = [task EXCEPT ![t] = [task[t] EXCEPT !.pc = "returned"]]
    /\ UNCHANGED <<vless_configs, env, nops, ncycles>>
    /\ UNCHANGED <<proxyvars, xrayvars>>

\* The caller of add_api_key is done with idx.
Return(t) ==
    /\ task[t].pc = "returned"
    /\ task' = [task EXCEPT ![t] = Idle]
    /\ UNCHANGED <<api_keys, vless_configs, sqlite_sequence, env, nops,
                   ncycles>>
    /\ UNCHANGED <<proxyvars, xrayvars>>

\* delete_api_key(key_id)
DeleteApiKey(t, key_id) ==
    /\ task[t] = Idle
    /\ api_keys' = delete_row(api_keys, key_id)
    /\ UNCHANGED <<vless_configs, sqlite_sequence, env, task, ncycles>>
    /\ UNCHANGED <<proxyvars, xrayvars>>

\* bind_key_to_vless(key_id, vless_id)
BindKeyToVless(t, key_id, vless_id) ==
    /\ task[t] = Idle
    /\ api_keys' = bind_key_to_vless(api_keys, key_id, vless_id)
    /\ UNCHANGED <<vless_configs, sqlite_sequence, env, task, ncycles>>
    /\ UNCHANGED <<proxyvars, xrayvars>>

\* The locals of add_vless after its SELECT ran on table vless.
SelectedVless(tk, vless) ==
    [tk EXCEPT !.pc = "add_vless_insert",
               !.next_index = next_config_index(vless)]

\* add_vless(url, remark) is called by operation op and its SELECT runs.
AddVlessSelect(t, op, url) ==
    /\ task[t] = Idle
    /\ task' = [task EXCEPT ![t] =
                  SelectedVless([Idle EXCEPT !.op = op, !.url = url],
                                vless_configs)]
    /\ UNCHANGED <<api_keys, vless_configs, sqlite_sequence, env, ncycles>>
    /\ UNCHANGED <<proxyvars, xrayvars>>

\* seed_vless_from_env after it handled URL number tk.i of the list, the
\* table being vless: for url in settings.vless_configs: if url not in
\* existing_urls: add_vless(url, remark), whose SELECT then runs; after the
\* last URL main() calls setup_xray, which awaits get_active_vless_urls.
\* (Nothing else runs before main() starts polling, so the steps of main()
\* between two statements need no state of their own.)
SeedNext(tk, vless) ==
    IF {j \in (tk.i + 1)..Len(env) : env[j] \notin tk.existing_urls} = {}
    THEN [Idle EXCEPT !.op = "setup_xray", !.pc = "get_urls"]
    ELSE IF parse_vless_url(
                env[MinOf({j \in (tk.i + 1)..Len(env) :
                              env[j] \notin tk.existing_urls})]) = ValueError
    THEN [tk EXCEPT !.pc = "raised"]
    ELSE SelectedVless(
            [tk EXCEPT
                !.i = MinOf({j \in (tk.i + 1)..Len(env) :
                                env[j] \notin tk.existing_urls}),
                !.url = env[MinOf({j \in (tk.i + 1)..Len(env) :
                                      env[j] \notin tk.existing_urls})]],
            vless)

\* Where the caller of add_vless goes on, the table being vless: the direct
\* caller is done, on_vless_input awaits get_active_vless_urls, and
\* seed_vless_from_env goes to its next URL.
AfterAddVless(tk, vless) ==
    IF tk.op = "add_vless" THEN Idle
    ELSE IF tk.op = "on_vless_input" THEN [tk EXCEPT !.pc = "get_urls"]
    ELSE SeedNext(tk, vless)

\* The INSERT OR IGNORE of add_vless runs and the call returns.
AddVlessInsert(t) ==
    /\ task[t].pc = "add_vless_insert"
    /\ vless_configs' = insert_vless(vless_configs,
                                     sqlite_sequence.vless_configs,
                                     task[t].url, task[t].next_index)
    /\ sqlite_sequence' =
          [sqlite_sequence EXCEPT
              !.vless_configs = seq_after(@, vless_configs, vless_configs')]
    /\ task' = [task EXCEPT ![t] = AfterAddVless(task[t], vless_configs')]
    /\ UNCHANGED <<api_keys, env, nops, ncycles>>
    /\ UNCHANGED <<proxyvars, xrayvars>>

\* delete_vless(vless_id) is called by operation op and its UPDATE runs.
DeleteVlessUnbind(t, op, vless_id) ==
    /\ task[t] = Idle
    /\ api_keys' = unbind_keys(api_keys, vless_id)
    /\ task' = [task EXCEPT ![t] =
                  [Idle EXCEPT !.op = op, !.pc = "delete_vless_delete",
                               !.vless_id = vless_id]]
    /\ UNCHANGED <<vless_configs, sqlite_sequence, env, ncycles>>
    /\ UNCHANGED <<proxyvars, xrayvars>>

\* The DELETE of delete_vless runs and the call returns: the direct caller
\* is done, cb_vless_delete awaits get_active_vless_urls.
DeleteVlessDelete(t) ==
    /\ task[t].pc = "delete_vless_delete"
    /\ vless_configs' = delete_row(vless_configs, task[t].vless_id)
    /\ task' = [task EXCEPT ![t] =
                  IF task[t].op = "delete_vless" THEN Idle
                  ELSE [task[t] EXCEPT !.pc = "get_urls"]]
    /\ UNCHANGED <<api_keys, sqlite_sequence, env, nops, ncycles>>
    /\ UNCHANGED <<proxyvars, xrayvars>>

\* ---- services/vless.py: restart_xray, start_xray, stop_xray -----------------
\* One action per suspension.  A task's pc names the await it is suspended
\* at: "stop_wait" (wait_for(_xray_process.wait(), 5)), "spawn"
\* (create_subprocess_exec), "verify" (sleep(1)), "read_stderr"
\* (_xray_process.stderr.read()).

Handlers == {"on_vless_input", "cb_vless_delete"}

\* Where the caller goes on when restart_xray or stop_xray returned ok ("None":
\* stop_xray, or neither was called): a handler awaits its answer to the
\* administrator, main() goes on to start_polling, balance_check_loop
\* awaits its sleep.
Returned(tk, ok) ==
    IF tk.op \in Handlers
    THEN [Idle EXCEPT !.op = tk.op, !.pc = "answer", !.ok = ok]
    ELSE IF tk.op = "setup_xray"
    THEN [Idle EXCEPT !.op = "main", !.pc = "polling", !.ok = ok]
    ELSE [Idle EXCEPT !.op = "balance_check_loop", !.pc = "sleep",
                      !.ok = ok]

\* Where a task is after stop_xray returned: its caller was start_xray
\* (restart_xray was given urls) or the handler cb_vless_delete.
AfterStop(tk) ==
    IF tk.urls = <<>> THEN Returned(tk, "None")
    ELSE [tk EXCEPT !.pc = "spawn", !.h = NULL]

\* stop_xray up to its first suspension, run by task t with locals tk.  No
\* handle: nothing to do.  A handle of a process that has exited: terminate
\* and kill raise ProcessLookupError and the handle is cleared.  Otherwise
\* terminate() is sent and the task waits for the process.
CallStop(t, tk) ==
    IF _xray_process = NULL
    THEN /\ task' = [task EXCEPT ![t] = AfterStop(tk)]
         /\ UNCHANGED _xray_process
    ELSE IF ~procs[_xray_process].alive
    THEN /\ task' = [task EXCEPT ![t] = AfterStop(tk)]
         /\ _xray_process' = NULL
    ELSE /\ task' = [task EXCEPT ![t] =
                       [tk EXCEPT !.pc = "stop_wait", !.h = _xray_process]]
         /\ UNCHANGED _xray_process

\* restart_xray(urls) up to its first suspension, run by task t with locals
\* tk: save_xray_config writes the file unless the configuration is empty
\* (then restart_xray returns False), and start_xray calls stop_xray.  A
\* ValueError of the parser leaves restart_xray.
CallRestart(t, tk, urls) ==
    IF generate_xray_config(urls) = ValueError
    THEN /\ task' = [task EXCEPT ![t] =
                       [tk EXCEPT !.urls = urls, !.pc = "raised"]]
         /\ UNCHANGED <<config_file, _xray_process>>
    ELSE IF generate_xray_config(urls) = NoConfig
    THEN /\ task' = [task EXCEPT ![t] =
                       Returned([tk EXCEPT !.urls = urls], "False")]
         /\ UNCHANGED <<config_file, _xray_process>>
    ELSE /\ config_file' = generate_xray_config(urls)
         /\ CallStop(t, [tk EXCEPT !.urls = urls])

\* The process the task terminated has exited within the 5 seconds; the
\* handle is cleared.
StopWait(t) ==
    /\ task[t].pc = "stop_wait"
    /\ procs' = [procs EXCEPT ![task[t].h].alive = FALSE]
    /\ _xray_process' = NULL
    /\ task' = [task EXCEPT ![t] = AfterStop(task[t])]
    /\ UNCHANGED <<_xray_tunnel_count, config_file>>
    /\ UNCHANGED <<api_keys, vless_configs, sqlite_sequence, env, nops,
                   ncycles, proxyvars>>

\* wait_for timed out: _xray_process.kill() is called on whatever the
\* global holds by now.  None: AttributeError leaves stop_xray (the except
\* clause names TimeoutError and ProcessLookupError only).
StopTimeout(t) ==
    /\ task[t].pc = "stop_wait"
    /\ procs[task[t].h].alive
    /\ IF _xray_process = NULL
       THEN /\ task' = [task EXCEPT ![t] = [task[t] EXCEPT !.pc = "raised"]]
            /\ UNCHANGED <<procs, _xray_process>>
       ELSE /\ procs' = [procs EXCEPT ![_xray_process].alive = FALSE]
            /\ _xray_process' = NULL
            /\ task' = [task EXCEPT ![t] = AfterStop(task[t])]
    /\ UNCHANGED <<_xray_tunnel_count, config_file>>
    /\ UNCHANGED <<api_keys, vless_configs, sqlite_sequence, env, nops,
                   ncycles, proxyvars>>

\* create_subprocess_exec returned a process, which has read the file.
Spawn(t) ==
    /\ task[t].pc = "spawn"
    /\ procs' = Append(procs, [alive |-> TRUE, config |-> config_file])
    /\ _xray_process' = Len(procs) + 1
    /\ task' = [task EXCEPT ![t] =
                  [task[t] EXCEPT !.pc = "verify", !.h = Len(procs) + 1]]
    /\ UNCHANGED <<_xray_tunnel_count, config_file>>
    /\ UNCHANGED <<api_keys, vless_configs, sqlite_sequence, env, nops,
                   ncycles, proxyvars>>

\* create_subprocess_exec raised: FileNotFoundError (no binary) or another
\* exception; start_xray returns False either way.
SpawnRaises(t) ==
    /\ task[t].pc = "spawn"
    /\ task' = [task EXCEPT ![t] = Returned(task[t], "False")]
    /\ UNCHANGED xrayvars
    /\ UNCHANGED <<api_keys, vless_configs, sqlite_sequence, env, nops,
                   ncycles, proxyvars>>

\* A launched process exits by itself.
ProcessExits(h) ==
    /\ h \in DOMAIN procs
    /\ procs[h].alive
    /\ procs' = [procs EXCEPT ![h].alive = FALSE]
    /\ UNCHANGED <<_xray_process, _xray_tunnel_count, config_file>>
    /\ UNCHANGED <<api_keys, vless_configs, sqlite_sequence, env, task, nops,
                   ncycles, proxyvars>>

\* _xray_tunnel_count = len(vless_urls)
LaunchedCount(tk) == Len(tk.urls)

\* sleep(1) is over: _xray_process.returncode is read from the global.
\* None: AttributeError, caught by "except Exception", False.  Exited:
\* stderr is read.  Else start_xray returns True and restart_xray records
\* the count.
Verify(t) ==
    /\ task[t].pc = "verify"
    /\ IF _xray_process = NULL
       THEN /\ task' = [task EXCEPT ![t] = Returned(task[t], "False")]
            /\ UNCHANGED _xray_tunnel_count
       ELSE IF ~procs[_xray_process].alive
       THEN /\ task' = [task EXCEPT ![t] =
                          [task[t] EXCEPT !.pc = "read_stderr"]]
            /\ UNCHANGED _xray_tunnel_count
       ELSE /\ task' = [task EXCEPT ![t] = Returned(task[t], "True")]
            /\ _xray_tunnel_count' = LaunchedCount(task[t])
    /\ UNCHANGED <<_xray_process, procs, config_file>>
    /\ UNCHANGED <<api_keys, vless_configs, sqlite_sequence, env, nops,
                   ncycles, proxyvars>>

\* stderr was read: _xray_process = None; return False.
ReadStderr(t) ==
    /\ task[t].pc = "read_stderr"
    /\ _xray_process' = NULL
    /\ task' = [task EXCEPT ![t] = Returned(task[t], "False")]
    /\ UNCHANGED <<_xray_tunnel_count, procs, config_file>>
    /\ UNCHANGED <<api_keys, vless_configs, sqlite_sequence, env, nops,
                   ncycles, proxyvars>>

\* ---- the tunnel handlers, main() and balance_check_loop ----------------------

\* ids a caller may hold: every id the table has given out, stored or not
KeyIds == 1..sqlite_sequence.api_keys
VlessIds == 1..sqlite_sequence.vless_configs

XrayAdmins == {"admin1"}
\* what the administrator may send as a tunnel URL
AdminUrls == {Url(3), BadUrl(3)}
\* values of VLESS_CONFIGS
EnvLists == {<<>>, <<Url(1), Url(2)>>, <<BadUrl(3), Url(1)>>}
\* what a probe may report: unknown (the probe failed) or nothing left
ProbeBalances == {NULL, 0}

LoopSleep == [Idle EXCEPT !.op = "balance_check_loop", !.pc = "sleep"]

\* SELECT k.*, v.config_index AS vless_config_index ... ORDER BY k.key_index:
\* the set of lists the query may return, each row cut to the columns the
\* loop reads.
get_all_keys(keys, vless) ==
    {[i \in 1..Len(o) |->
        [id |-> keys[o[i]].id, is_active |-> keys[o[i]].is_active,
         vless_config_index |->
            vless_config_index(vless, keys[o[i]].vless_id)]] :
        o \in {s \in Orderings(DOMAIN keys) :
                  \A i, j \in 1..Len(s) :
                      i < j => keys[s[i]].key_index <= keys[s[j]].key_index}}

\* if urls and (not is_xray_running()
\*              or len(urls) != get_xray_tunnel_count())
DriftSeen(urls) ==
    /\ urls # <<>>
    /\ ~is_xray_running \/ Len(urls) # _xray_tunnel_count

\* main(): seed_vless_from_env runs its get_all_vless (or returns at once
\* when the list is empty).
MainStart ==
    /\ task["main"].pc = "start"
    /\ task' = [task EXCEPT !["main"] =
          IF env = <<>>
          THEN [Idle EXCEPT !.op = "setup_xray", !.pc = "get_urls"]
          ELSE SeedNext([Idle EXCEPT
                            !.op = "seed_vless_from_env",
                            !.existing_urls =
                                {vless_configs[id].url :
                                    id \in DOMAIN vless_configs}],
                        vless_configs)]
    /\ UNCHANGED <<api_keys, vless_configs, sqlite_sequence, env, nops,
                   ncycles, proxyvars, xrayvars>>

\* on_vless_input(url): a URL the parser rejects is answered at once, else
\* add_vless is called.
OnVlessInput(t, url) ==
    /\ task["main"].pc = "polling"
    /\ nops + ncycles < MaxOps
    /\ nops' = nops + 1
    /\ IF parse_vless_url(url) \in {NoDescriptor, ValueError}
       THEN /\ task[t] = Idle
            /\ task' = [task EXCEPT ![t] =
                          [Idle EXCEPT
                              !.op = "on_vless_input",
                              !.pc = IF parse_vless_url(url) = ValueError
                                     THEN "raised" ELSE "answer"]]
            /\ UNCHANGED <<api_keys, vless_configs, sqlite_sequence, env,
                           ncycles, proxyvars, xrayvars>>
       ELSE AddVlessSelect(t, "on_vless_input", url)

\* cb_vless_delete(vless_id), from a button that named a stored tunnel when
\* it was drawn: delete_vless is called.
CbVlessDelete(t, vless_id) ==
    /\ task["main"].pc = "polling"
    /\ vless_id \in VlessIds
    /\ nops + ncycles < MaxOps
    /\ nops' = nops + 1
    /\ DeleteVlessUnbind(t, "cb_vless_delete", vless_id)

\* urls = await get_active_vless_urls(), and what the caller does with it
\* up to its next suspension.
GetUrls(t) ==
    /\ task[t].pc = "get_urls"
    /\ \E urls \in get_active_vless_urls(vless_configs) :
          IF \/ task[t].op = "on_vless_input"
             \/ task[t].op \in {"cb_vless_delete", "setup_xray"} /\ urls # <<>>
             \/ task[t].op = "balance_check_loop" /\ DriftSeen(urls)
          THEN CallRestart(t, task[t], urls)
          ELSE IF task[t].op = "cb_vless_delete"
          THEN /\ CallStop(t, [task[t] EXCEPT !.urls = <<>>])
               /\ UNCHANGED config_file
          ELSE /\ task' = [task EXCEPT ![t] = Returned(task[t], "None")]
               /\ UNCHANGED <<config_file, _xray_process>>
    /\ UNCHANGED <<procs, _xray_tunnel_count>>
    /\ UNCHANGED <<api_keys, vless_configs, sqlite_sequence, env, nops,
                   ncycles, proxyvars>>

\* The handler's last await (message.answer, callback.answer) and return.
Answer(t) ==
    /\ task[t].pc = "answer"
    /\ task' = [task EXCEPT ![t] = Idle]
    /\ UNCHANGED <<api_keys, vless_configs, sqlite_sequence, env, nops,
                   ncycles, proxyvars, xrayvars>>

\* Variant: no except clause, the exception ends balance_check_loop.
AfterRaise_mut(t) ==
    /\ task[t].pc = "raised"
    /\ task' = [task EXCEPT ![t] =
                  IF task[t].op \in Handlers THEN Idle
                  ELSE IF task[t].op = "balance_check_loop"
                  THEN [LoopSleep EXCEPT !.pc = "done"]
                  ELSE [Idle EXCEPT !.op = "main", !.pc = "crashed"]]
    /\ UNCHANGED <<api_keys, vless_configs, sqlite_sequence, env, nops,
                   ncycles, proxyvars, xrayvars>>

\* An exception left the operation: a handler ends, balance_check_loop
\* sleeps 30 s in its except clause and loops, main() ends.
AfterRaise(t) ==
    /\ task[t].pc = "raised"
    /\ task' = [task EXCEPT ![t] =
                  IF task[t].op \in Handlers THEN Idle
                  ELSE IF task[t].op = "balance_check_loop" THEN LoopSleep
                  ELSE [Idle EXCEPT !.op = "main", !.pc = "crashed"]]
    /\ UNCHANGED <<api_keys, vless_configs, sqlite_sequence, env, nops,
                   ncycles, proxyvars, xrayvars>>

\* The loop's next key, or get_active_vless_urls after the last one.  (The
\* SOCKS port of the probe, 10801 + vless_config_index when the daemon
\* runs, changes nothing the model holds.)
NextKey(tk) ==
    IF tk.i < Len(tk.keys) THEN [tk EXCEPT !.i = @ + 1, !.pc = "probe"]
    ELSE [tk EXCEPT !.pc = "get_urls"]

\* sleep(balance_check_interval) is over and get_all_keys runs; "continue"
\* when there is no key, else the first probe is sent.
LoopWake ==
    /\ task["main"].pc = "polling"
    /\ task["loop"].pc = "sleep"
    /\ nops + ncycles < MaxOps
    /\ ncycles' = ncycles + 1
    /\ \E ks \in get_all_keys(api_keys, vless_configs) :
          task' = [task EXCEPT !["loop"] =
                     IF ks = <<>> THEN LoopSleep
                     ELSE [LoopSleep EXCEPT !.pc = "probe", !.keys = ks,
                                            !.i = 1]]
    /\ UNCHANGED <<api_keys, vless_configs, sqlite_sequence, env, nops,
                   proxyvars, xrayvars>>

\* Variant: a balance equal to the threshold counts as low.
BelowThreshold_mut(balance) ==
    balance # NULL /\ balance <= BALANCE_THRESHOLD

\* balance is not None and balance < settings.balance_threshold
BelowThreshold(balance) ==
    balance # NULL /\ balance < BALANCE_THRESHOLD

\* check_key_balance returned balance b and update_key_balance runs.
LoopUpdate(b) ==
    /\ task["loop"].pc = "probe"
    /\ api_keys' = update_key_balance(
                       api_keys, task["loop"].keys[task["loop"].i].id, b)
    /\ task' = [task EXCEPT !["loop"] =
          IF /\ BelowThreshold(b)
             /\ task["loop"].keys[task["loop"].i].is_active
          THEN [task["loop"] EXCEPT !.pc = "deactivate"]
          ELSE NextKey(task["loop"])]
    /\ UNCHANGED <<vless_configs, sqlite_sequence, env, nops, ncycles,
                   proxyvars, xrayvars>>

\* deactivate_key(k["id"]) runs.
LoopDeactivate ==
    /\ task["loop"].pc = "deactivate"
    /\ api_keys' = deactivate_key(
                       api_keys, task["loop"].keys[task["loop"].i].id)
    /\ task' = [task EXCEPT !["loop"] = NextKey(task["loop"])]
    /\ UNCHANGED <<vless_configs, sqlite_sequence, env, nops, ncycles,
                   proxyvars, xrayvars>>

\* An empty store with one admitted key; main() is about to run.
InitXray ==
    /\ api_keys = (1 :> NewKeyRow(1, "k1", 0, NULL))
    /\ keys0 = api_keys
    /\ service_tokens = Tokens
    /\ request_log = <<>>
    /\ log_req = <<>>
    /\ InitRequests
    /\ sel = NoSel
    /\ vless_configs = <<>>
    /\ sqlite_sequence = [api_keys |-> 1, vless_configs |-> 0]
    /\ env \in EnvLists
    /\ task = [t \in Tasks |->
                 IF t = "main" THEN [Idle EXCEPT !.op = "main", !.pc = "start"]
                 ELSE IF t = "loop" THEN LoopSleep
                 ELSE Idle]
    /\ nops = 0
    /\ ncycles = 0
    /\ _xray_process = NULL
    /\ _xray_tunnel_count = 0
    /\ procs = <<>>
    /\ config_file = NoConfig

NextXray ==
    \/ MainStart
    \/ \E t \in XrayAdmins :
          \/ \E url \in AdminUrls : OnVlessInput(t, url)
          \/ \E vless_id \in 1..(MaxOps + 2) : CbVlessDelete(t, vless_id)
          \/ Answer(t)
    \/ LoopWake
    \/ \E b \in ProbeBalances : LoopUpdate(b)
    \/ LoopDeactivate
    \/ \E t \in Tasks :
          \/ AddVlessInsert(t)
          \/ DeleteVlessDelete(t)
          \/ GetUrls(t)
          \/ StopWait(t)
          \/ StopTimeout(t)
          \/ Spawn(t)
          \/ SpawnRaises(t)
          \/ Verify(t)
          \/ ReadStderr(t)
          \/ AfterRaise(t)
    \/ \E h \in 1..(MaxOps + 1) : ProcessExits(h)

SpecXray == InitXray /\ [][NextXray]_vars

\* ---- balance_check_loop over a pool, its exceptions and its cancellation ----

\* What a probe gives: no balance (it failed), one below the threshold, one
\* equal to it.
LoopBalances == {NULL, 0, BALANCE_THRESHOLD}

\* Active or not, with a balance never probed or probed sufficient.
LoopKeyStates == [a : BOOLEAN, b : {NULL, BALANCE_THRESHOLD}]

\* Pools of one to LoopKeys keys.
LoopPools ==
    PoolsOver(LoopKeys, LoopKeyStates) \ PoolsOver(0, LoopKeyStates)

\* A stored tunnel admitted with config index id - 1.
TunnelRow(id) ==
    [id |-> id, url |-> Url(id), is_active |-> TRUE, config_index |-> id - 1]

\* The service is up (main() awaits start_polling, the loop sleeps): any
\* pool and no tunnel, or one key never probed and one tunnel whose daemon
\* failed to start.
InitLoop ==
    /\ service_tokens = Tokens
    /\ request_log = <<>>
    /\ log_req = <<>>
    /\ InitRequests
    /\ sel = NoSel
    /\ env = <<>>
    /\ task = [t \in Tasks |->
                 IF t = "main" THEN [Idle EXCEPT !.op = "main",
                                                 !.pc = "polling"]
                 ELSE IF t = "loop" THEN LoopSleep
                 ELSE Idle]
    /\ nops = 0
    /\ ncycles = 0
    /\ \/ /\ api_keys \in LoopPools
          /\ vless_configs = <<>>
       \/ /\ api_keys \in PoolsOver(1, {[a |-> TRUE, b |-> NULL]})
                           \ PoolsOver(0, LoopKeyStates)
          /\ vless_configs = [id \in {1} |-> TunnelRow(id)]
    /\ keys0 = api_keys
    /\ _xray_process = NULL
    /\ _xray_tunnel_count = 0
    /\ procs = <<>>
    /\ config_file = NoConfig
    /\ sqlite_sequence = [api_keys |-> Cardinality(DOMAIN api_keys),
                          vless_configs |-> Cardinality(DOMAIN vless_configs)]

\* An exception leaves the try block at the await the loop is suspended at:
\* get_all_keys, update_key_balance, deactivate_key or
\* get_active_vless_urls raises (a store error), or save_xray_config does.
\* The except clause logs it and awaits sleep(30).
LoopRaises ==
    /\ task["loop"].pc \in {"sleep", "probe", "deactivate", "get_urls"}
    /\ task' = [task EXCEPT !["loop"] = [task["loop"] EXCEPT !.pc = "raised"]]
    /\ UNCHANGED <<api_keys, vless_configs, sqlite_sequence, env, nops,
                   ncycles, proxyvars, xrayvars>>

\* start_polling has returned: the finally clause of main() calls
\* balance_task.cancel() and awaits the task.  CancelledError is thrown
\* into the loop at the await it is suspended at, before the loop takes
\* any other step: inside the try block "except asyncio.CancelledError:
\* break" ends the loop, inside the except clause (sleep(30)) the error
\* ends the task.  main() goes on to stop_xray.
Cancel ==
    /\ task["main"].pc = "polling"
    /\ task["loop"].pc # "done"
    /\ task' = [task EXCEPT
                  !["loop"] = [task["loop"] EXCEPT !.pc = "done"],
                  !["main"] = [task["main"] EXCEPT !.pc = "stop_xray"]]
    /\ UNCHANGED <<api_keys, vless_configs, sqlite_sequence, env, nops,
                   ncycles, proxyvars, xrayvars>>

NextLoop ==
    \/ LoopWake
    \/ \E b \in LoopBalances : LoopUpdate(b)
    \/ LoopDeactivate
    \/ LoopRaises
    \/ \E t \in Tasks :
          \/ GetUrls(t)
          \/ Spawn(t)
          \/ SpawnRaises(t)
          \/ Verify(t)
          \/ ReadStderr(t)
          \/ AfterRaise(t)
    \/ \E h \in 1..(MaxOps + 1) : ProcessExits(h)
    \/ Cancel

SpecLoop == InitLoop /\ [][NextLoop]_vars

\* The sleep(30) of the except clause ends.
FairSpecLoop == SpecLoop /\ WF_vars(AfterRaise("loop"))

\* ---- the daemon under the loop and the tunnel handlers, launches succeeding --

\* The service is up with no key or one key and with the tunnel Url(1),
\* seeded from VLESS_CONFIGS, and setup_xray has started the daemon with it.
InitConverge ==
    /\ api_keys \in {<<>>, <<NewKeyRow(1, "k1", 0, NULL)>>}
    /\ keys0 = api_keys
    /\ service_tokens = Tokens
    /\ request_log = <<>>
    /\ log_req = <<>>
    /\ InitRequests
    /\ sel = NoSel
    /\ vless_configs = <<TunnelRow(1)>>
    /\ sqlite_sequence = [api_keys |-> Len(api_keys), vless_configs |-> 1]
    /\ env = <<>>
    /\ task = [t \in Tasks |->
                 IF t = "main" THEN [Idle EXCEPT !.op = "main",
                                                 !.pc = "polling"]
                 ELSE IF t = "loop" THEN LoopSleep
                 ELSE Idle]
    /\ nops = 0
    /\ ncycles = 0
    /\ _xray_process = 1
    /\ _xray_tunnel_count = 1
    /\ procs = <<[alive |-> TRUE,
                  config |-> generate_xray_config(<<Url(1)>>)]>>
    /\ config_file = generate_xray_config(<<Url(1)>>)

\* sleep(balance_check_interval) is over, as often as the loop comes back to
\* it, and get_all_keys runs; the first probe is sent.
LoopWakes ==
    /\ task["loop"].pc = "sleep"
    /\ \E ks \in get_all_keys(api_keys, vless_configs) :
          task' = [task EXCEPT !["loop"] =
                     IF ks = <<>> THEN LoopSleep
                     ELSE [LoopSleep EXCEPT !.pc = "probe", !.keys = ks,
                                            !.i = 1]]
    /\ UNCHANGED <<api_keys, vless_configs, sqlite_sequence, env, nops,
                   ncycles, proxyvars, xrayvars>>

\* A step of the loop's cycle, but for its read of the tunnel URLs.
LoopStep ==
    \/ LoopWakes
    \/ \E b \in ProbeBalances : LoopUpdate(b)
    \/ LoopDeactivate
    \/ StopWait("loop")
    \/ Spawn("loop")
    \/ Verify("loop")

\* A step of a tunnel handler that task t has begun, but for its read of
\* the tunnel URLs.
HandlerStep(t) ==
    \/ AddVlessInsert(t)
    \/ DeleteVlessDelete(t)
    \/ StopWait(t)
    \/ Spawn(t)
    \/ Verify(t)
    \/ Answer(t)

\* The administrator adds the tunnel Url(2), which the parser accepts, and
\* deletes tunnels, MaxOps times in all; the
\* handlers and the loop run; every launch gives a process, and the one
\* process that may exit by itself is the one setup_xray started.
NextConverge ==
    \/ \E t \in XrayAdmins :
          \/ \E url \in {Url(2)} : OnVlessInput(t, url)
          \/ \E vless_id \in 1..(MaxOps + 2) : CbVlessDelete(t, vless_id)
          \/ HandlerStep(t)
          \/ GetUrls(t)
    \/ LoopStep
    \/ GetUrls("loop")
    \/ ProcessExits(1)

\* The loop keeps running and a handler that has begun goes on to its end;
\* get_active_vless_urls returns, so that no task waits for it for ever.
FairSpecConverge ==
    /\ InitConverge
    /\ [][NextConverge]_vars
    /\ WF_vars(LoopStep)
    /\ \A t \in XrayAdmins : WF_vars(HandlerStep(t))
    /\ \A t \in XrayAdmins \cup {"loop"} : []<>(task[t].pc # "get_urls")

\* ---- the pool under requests, balance_check_loop and the administrator -------

\* The service is up, no tunnel is stored, and two authenticated requests
\* for /v1/chat are to come, one after the other.  The pool holds the key of
\* secret k1, active or not and never probed or probed sufficient.
InitPool ==
    /\ api_keys \in
          {<<[id |-> 1, key |-> "k1", key_index |-> 0, vless_id |-> NULL,
              is_active |-> g.a, pollen_balance |-> g.b]>> :
              g \in LoopKeyStates}
    /\ keys0 = api_keys
    /\ service_tokens = Tokens
    /\ request_log = <<>>
    /\ log_req = <<>>
    /\ pc = [r \in Requests |-> "select"]
    /\ path = [r \in Requests |-> "/v1/chat"]
    /\ auth = [r \in Requests |-> <<"Bearer ", "tokA">>]
    /\ token = [r \in Requests |->
                   _authenticate(service_tokens, <<"Bearer ", "tokA">>)]
    /\ tried_keys = [r \in Requests |-> {}]
    /\ attempt = [r \in Requests |-> 0]
    /\ key_data = [r \in Requests |-> NoRow]
    /\ upstream_status = [r \in Requests |-> NULL]
    /\ response = [r \in Requests |-> <<>>]
    /\ calls = [r \in Requests |-> <<>>]
    /\ connector = [r \in Requests |-> <<>>]
    /\ results = [r \in Requests |-> <<>>]
    /\ raised = [r \in Requests |-> FALSE]
    /\ sel = NoSel
    /\ vless_configs = <<>>
    /\ sqlite_sequence = [api_keys |-> Cardinality(DOMAIN api_keys),
                          vless_configs |-> 0]
    /\ env = <<>>
    /\ task = [t \in Tasks |->
                 IF t = "main" THEN [Idle EXCEPT !.op = "main",
                                                 !.pc = "polling"]
                 ELSE IF t = "loop" THEN LoopSleep
                 ELSE Idle]
    /\ nops = 0
    /\ ncycles = 0
    /\ _xray_process = NULL
    /\ _xray_tunnel_count = 0
    /\ procs = <<>>
    /\ config_file = NoConfig

\* cb_key_refresh_all: get_all_keys runs and the first probe is sent; with
\* no key the handler goes on to its answer (cb_keys).
RefreshStart(t) ==
    /\ task[t] = Idle
    /\ nops + ncycles < PoolOps
    /\ nops' = nops + 1
    /\ \E ks \in get_all_keys(api_keys, vless_configs) :
          task' = [task EXCEPT ![t] =
                     IF ks = <<>>
                     THEN [Idle EXCEPT !.op = "cb_key_refresh_all",
                                       !.pc = "answer"]
                     ELSE [Idle EXCEPT !.op = "cb_key_refresh_all",
                                       !.pc = "probe", !.keys = ks,
                                       !.i = 1]]
    /\ UNCHANGED <<api_keys, vless_configs, sqlite_sequence, env, ncycles,
                   proxyvars, xrayvars>>

\* The handler's next key, or its answer after the last one.
RefreshNextKey(tk) ==
    IF tk.i < Len(tk.keys) THEN [tk EXCEPT !.i = @ + 1]
    ELSE [tk EXCEPT !.pc = "answer"]

\* Variant: a sufficient balance sets the keys active again
\* (reactivate_keys_after_reset is called).
RefreshUpdate_mut(t, b) ==
    /\ task[t].op = "cb_key_refresh_all"
    /\ task[t].pc = "probe"
    /\ api_keys' =
          IF BelowThreshold(b) \/ b = NULL
          THEN update_key_balance(api_keys, task[t].keys[task[t].i].id, b)
          ELSE [id \in DOMAIN api_keys |->
                   [update_key_balance(
                        api_keys, task[t].keys[task[t].i].id, b)[id]
                       EXCEPT !.is_active = TRUE]]
    /\ task' = [task EXCEPT ![t] =
          IF BelowThreshold(b)
          THEN [task[t] EXCEPT !.pc = "deactivate"]
          ELSE RefreshNextKey(task[t])]
    /\ UNCHANGED <<vless_configs, sqlite_sequence, env, nops, ncycles,
                   proxyvars, xrayvars>>

\* check_key_balance returned balance b and update_key_balance runs; a
\* balance below the threshold leads to deactivate_key, whatever the flag.
RefreshUpdate(t, b) ==
    /\ task[t].op = "cb_key_refresh_all"
    /\ task[t].pc = "probe"
    /\ api_keys' = update_key_balance(
                       api_keys, task[t].keys[task[t].i].id, b)
    /\ task' = [task EXCEPT ![t] =
          IF BelowThreshold(b)
          THEN [task[t] EXCEPT !.pc = "deactivate"]
          ELSE RefreshNextKey(task[t])]
    /\ UNCHANGED <<vless_configs, sqlite_sequence, env, nops, ncycles,
                   proxyvars, xrayvars>>

\* deactivate_key(k["id"]) runs.
RefreshDeactivate(t) ==
    /\ task[t].op = "cb_key_refresh_all"
    /\ task[t].pc = "deactivate"
    /\ api_keys' = deactivate_key(api_keys, task[t].keys[task[t].i].id)
    /\ task' = [task EXCEPT ![t] =
                  RefreshNextKey([task[t] EXCEPT !.pc = "probe"])]
    /\ UNCHANGED <<vless_configs, sqlite_sequence, env, nops, ncycles,
                   proxyvars, xrayvars>>

\* _save_new_key(key): add_api_key is called and its SELECT runs.
Admit(t, key) ==
    /\ nops + ncycles < PoolOps
    /\ nops' = nops + 1
    /\ AddApiKeySelect(t, key, NULL)

\* _save_new_key after add_api_key returned: check_key_balance gave balance
\* b and, when it is known, update_key_balance writes it to the key of that
\* secret.
AdmitProbe(t, b) ==
    /\ task[t].pc = "returned"
    /\ api_keys' =
          IF b = NULL THEN api_keys
          ELSE update_key_balance(
                   api_keys,
                   CHOOSE id \in DOMAIN api_keys :
                       api_keys[id].key = task[t].key,
                   b)
    /\ task' = [task EXCEPT ![t] = Idle]
    /\ UNCHANGED <<vless_configs, sqlite_sequence, env, nops, ncycles,
                   proxyvars, xrayvars>>

\* A request is received once the requests before it are answered, and it
\* selects its first key.
PoolSelectKey(r) ==
    /\ \A q \in Requests : q < r => pc[q] = "done"
    /\ SelectKey(r)

\* The loop wakes up for one of the PoolOps cycles and commands.
PoolLoopWake ==
    /\ nops + ncycles < PoolOps
    /\ LoopWake

\* Every step of the requests, of the loop's sweep and of the two handlers;
\* the administrator admits the secret the pool holds or one it does not.
NextPool ==
    \/ \E r \in Requests :
          \/ PoolSelectKey(r)
          \/ \E s \in UpstreamStatuses : UpstreamResponds(r, s)
          \/ UpstreamRaises(r)
          \/ DeactivateKey(r)
          \/ ZeroBalance(r)
          \/ LogExhausted(r)
          \/ LogStatus(r)
          \/ Relay(r)
          \/ RelayRaises(r)
          \/ LogException(r)
          \/ LogNoKeys(r)
    \/ PoolLoopWake
    \/ \E b \in LoopBalances : LoopUpdate(b)
    \/ LoopDeactivate
    \/ GetUrls("loop")
    \/ RefreshStart("admin1")
    \/ \E b \in LoopBalances : RefreshUpdate("admin1", b)
    \/ RefreshDeactivate("admin1")
    \/ Answer("admin1")
    \/ \E key \in {"k1", "k9"} : Admit("admin2", key)
    \/ AddApiKeyInsert("admin2")
    \/ \E b \in LoopBalances : AdmitProbe("admin2", b)

SpecPool == InitPool /\ [][NextPool]_vars

\* ---- the store's operations called by two concurrent handlers ---------------

Admins == {"admin1", "admin2"}
Secrets == {"k1", "k2"}
StoreUrls == {Url(1), Url(2)}

InitStore ==
    /\ api_keys = <<>>
    /\ keys0 = api_keys
    /\ service_tokens = Tokens
    /\ request_log = <<>>
    /\ log_req = <<>>
    /\ InitRequests
    /\ sel = NoSel
    /\ InitAdmin

\* One of the operations is called.
StoreCall(t) ==
    /\ nops < MaxStoreOps
    /\ nops' = nops + 1
    /\ \/ \E key \in Secrets, vless_id \in {NULL} \cup VlessIds :
            AddApiKeySelect(t, key, vless_id)
       \/ \E key_id \in KeyIds : DeleteApiKey(t, key_id)
       \/ \E key_id \in KeyIds, vless_id \in {NULL} \cup VlessIds :
            BindKeyToVless(t, key_id, vless_id)
       \/ \E url \in StoreUrls : AddVlessSelect(t, "add_vless", url)
       \/ \E vless_id \in VlessIds : DeleteVlessUnbind(t, "delete_vless",
                                                      vless_id)

NextStore ==
    \E t \in Admins :
        \/ StoreCall(t)
        \/ AddApiKeyInsert(t)
        \/ Return(t)
        \/ AddVlessInsert(t)
        \/ DeleteVlessDelete(t)

SpecStore == InitStore /\ [][NextStore]_vars

\* ---- parse_vless_url and generate_xray_config called on their own ----------

\* The URLs of the direct calls: well-formed ones (bare host, port, query,
\* remark, bracketed IPv6 host with port), another scheme, no "@", a port
\* that is not a number, an empty port, a bracketed IPv6 host without port,
\* an empty host, an unknown transport, an unknown security, the empty
\* string.
SampleUrls ==
    {Url(1), Url(2),
     <<"vless://", "u", "@", "h", ":", "8", "4", "4", "3", "?",
       "type", "=", "ws", "&", "security", "=", "tls", "#", "r">>,
     <<"vless://", "u", "@", "h", ":", "4", "4", "3", "?",
       "security", "=", "reality", "&", "type", "=", "grpc">>,
     <<"vless://", "u", "@", "[", ":", ":", "1", "]", ":", "8", "0">>,
     BadUrl(1),
     <<"vless://", "u", "h", ":", "4", "4", "3">>,
     <<"vless://", "u", "@", "h", ":", "x">>,
     <<"vless://", "u", "@", "h", ":">>,
     <<"vless://", "u", "@", "[", ":", ":", "1", "]">>,
     <<"vless://", "u", "@", ":", "4", "4", "3">>,
     <<"vless://", "u", "@", "h", "?", "type", "=", "xhttp", "&",
       "security", "=", "tls">>,
     <<"vless://", "u", "@", "h", "?", "type", "=", "ws", "&",
       "security", "=", "xtls">>,
     <<>>}

\* Lists of up to MaxUrls of them.
UrlLists == UNION {[1..n -> SampleUrls] : n \in 0..MaxUrls}

\* No call made yet.
NoCall == [call |-> "", args |-> <<>>, result |-> [pending |-> TRUE]]

InitVless ==
    /\ api_keys = <<>>
    /\ keys0 = api_keys
    /\ service_tokens = Tokens
    /\ request_log = <<>>
    /\ log_req = <<>>
    /\ InitRequests
    /\ sel = NoCall
    /\ vless_configs = <<>>
    /\ sqlite_sequence = [api_keys |-> 0, vless_configs |-> 0]
    /\ env \in UrlLists
    /\ task = [t \in Tasks |-> Idle]
    /\ nops = 0
    /\ ncycles = 0
    /\ _xray_process = NULL
    /\ _xray_tunnel_count = 0
    /\ procs = <<>>
    /\ config_file = NoConfig

\* parse_vless_url(url) for a URL of the list
CallParse ==
    /\ \E i \in DOMAIN env :
          sel' = [call |-> "parse_vless_url", args |-> env[i],
                  result |-> parse_vless_url(env[i])]
    /\ UNCHANGED <<api_keys, service_tokens, request_log, keys0, log_req,
                   connector, adminvars>>
    /\ UNCHANGED reqvars

\* generate_xray_config(vless_urls) for the list
CallGenerate ==
    /\ sel' = [call |-> "generate_xray_config", args |-> env,
               result |-> generate_xray_config(env)]
    /\ UNCHANGED <<api_keys, service_tokens, request_log, keys0, log_req,
                   connector, adminvars>>
    /\ UNCHANGED reqvars

NextVless == CallParse \/ CallGenerate

SpecVless == InitVless /\ [][NextVless]_vars

\* ---- _forward_headers called on its own --------------------------------------

HOP_BY_HOP ==
    {"connection", "keep-alive", "proxy-authenticate", "proxy-authorization",
     "te", "trailers", "transfer-encoding", "upgrade", "host"}

\* Header names a client may send, each with k.lower().
LowerCase ==
    [Connection |-> "connection", HOST |-> "host",
     Upgrade |-> "upgrade", TE |-> "te", Trailers |-> "trailers"] @@
    ("keep-alive" :> "keep-alive") @@
    ("Proxy-Authenticate" :> "proxy-authenticate") @@
    ("Proxy-Authorization" :> "proxy-authorization") @@
    ("Transfer-Encoding" :> "transfer-encoding") @@
    [Authorization |-> "authorization", authorization |-> "authorization",
     AUTHORIZATION |-> "authorization", Accept |-> "accept"] @@
    ("X-Tag" :> "x-tag") @@ ("x-tag" :> "x-tag")

lower(k) == LowerCase[k]

\* The header lines of a request, as request.headers.items() yields them:
\* the client's Authorization carries a service token, X-Tag may come with
\* either of two values (and more than once), the others with one value.
HeaderLines ==
    {<<k, IF lower(k) = "authorization" THEN "Bearer tokA" ELSE "a">> :
        k \in DOMAIN LowerCase}
    \cup {<<"X-Tag", "b">>}

\* headers = {}; headers[k] = v for every line that is neither hop-by-hop
\* nor an Authorization (a later line of the same name replaces an earlier
\* one); headers["Authorization"] = f"Bearer {api_key}".
_forward_headers(request_headers, api_key) ==
    LET kept == {i \in DOMAIN request_headers :
                    /\ lower(request_headers[i][1]) \notin HOP_BY_HOP
                    /\ lower(request_headers[i][1]) # "authorization"}
        last(k) == CHOOSE i \in kept :
                      /\ request_headers[i][1] = k
                      /\ \A j \in kept : request_headers[j][1] = k => j <= i
    IN [k \in {request_headers[i][1] : i \in kept} \cup {"Authorization"} |->
           IF k = "Authorization" THEN "Bearer " \o api_key
           ELSE request_headers[last(k)][2]]

\* Requests of up to MaxHeaders header lines and the key selected for them.
InitHeaders ==
    /\ api_keys = <<>>
    /\ keys0 = api_keys
    /\ service_tokens = Tokens
    /\ request_log = <<>>
    /\ log_req = <<>>
    /\ InitRequests
    /\ InitAdmin
    /\ sel \in [call : {""},
                args : [request_headers :
                           UNION {[1..n -> HeaderLines] : n \in 0..MaxHeaders},
                        api_key : {"k1", "k2"}],
                result : {[pending |-> TRUE]}]

CallForwardHeaders ==
    /\ sel.call = ""
    /\ sel' = [sel EXCEPT
                 !.call = "_forward_headers",
                 !.result = _forward_headers(sel.args.request_headers,
                                             sel.args.api_key)]
    /\ UNCHANGED <<api_keys, service_tokens, request_log, keys0, log_req,
                   connector, adminvars>>
    /\ UNCHANGED reqvars

NextHeaders == CallForwardHeaders

SpecHeaders == InitHeaders /\ [][NextHeaders]_vars

\* ---- get_active_key called on its own -------------------------------------

InitSelect ==
    /\ api_keys \in PoolsOver(SelKeys, KeyStates)
    /\ InitAdmin
    /\ keys0 = api_keys
    /\ service_tokens = Tokens
    /\ request_log = <<>>
    /\ log_req = <<>>
    /\ InitRequests
    /\ sel \in [exclude_ids : SUBSET (1..SelKeys), called : {FALSE},
                result : {NoRow}]

CallGetActiveKey ==
    /\ ~sel.called
    /\ \E kd \in get_active_key(api_keys, BALANCE_THRESHOLD, sel.exclude_ids) :
          sel' = [sel EXCEPT !.called = TRUE, !.result = kd]
    /\ UNCHANGED <<api_keys, service_tokens, request_log, keys0, log_req,
                   connector, adminvars>>
    /\ UNCHANGED reqvars

NextSelect == CallGetActiveKey

SpecSelect == InitSelect /\ [][NextSelect]_vars

\* ---- vocabulary of the properties ----------------------------------------

ControlPaths == {"/health", "/status"}

Proxied(r) == pc[r] # "idle" /\ path[r] \notin ControlPaths

\* The header is "Bearer <t>" and <t> is a token that exists and is active.
ValidBearer(a) ==
    /\ a[1] = "Bearer "
    /\ \E id \in DOMAIN service_tokens :
          service_tokens[id].token = a[2] /\ service_tokens[id].is_active

\* The request_log rows request r inserted, in order.
LogOf(r) ==
    LET idx == {i \in 1..Len(request_log) : log_req[i] = r}
        RECURSIVE Pick(_)
        Pick(i) == IF i > Len(request_log) THEN <<>>
                   ELSE IF i \in idx THEN <<request_log[i]>> \o Pick(i + 1)
                   ELSE Pick(i + 1)
    IN Pick(1)

\* The keys for which request r got a 402.
Exhausted(r) ==
    {calls[r][i] : i \in {j \in 1..Len(results[r]) : results[r][j] = 402}}

SameState(k) ==
    /\ api_keys[k].is_active = keys0[k].is_active
    /\ api_keys[k].pollen_balance = keys0[k].pollen_balance

Drained(k) == ~api_keys[k].is_active /\ api_keys[k].pollen_balance = 0

\* Every key that answered no request with 402 is as it was at the start.
OthersUntouched ==
    \A k \in DOMAIN api_keys :
        k \notin UNION {Exhausted(r) : r \in Requests} => SameState(k)

OutcomeTag(s) ==
    IF s < 400 THEN "ok"
    ELSE IF s = 400 THEN "error_400" ELSE "error_402"

LocalResponse(code) == <<[status |-> code, key_id |-> NULL]>>

\* The id of the service token the request's header names.
RequestToken(r) ==
    CHOOSE id \in DOMAIN service_tokens :
        service_tokens[id].token = auth[r][2]

LogRow(r, tag, key_id) ==
    [path |-> path[r], status |-> tag, key_id |-> key_id,
     token_id |-> RequestToken(r)]


\* ---- properties -----------------------------------------------------------

\* C1: a request for a path other than /health and /status whose
\* Authorization header is absent, does not start with "Bearer ", or names
\* an unknown or revoked token is answered 401; it selects no key, issues no
\* upstream call, changes no key and inserts no request_log row.
C1_Unauthenticated401 ==
    \A r \in Requests :
        (Proxied(r) /\ ~ValidBearer(auth[r])) =>
            /\ pc[r] = "done"
            /\ response[r] = LocalResponse(401)
            /\ key_data[r] = NoRow
            /\ tried_keys[r] = {}
            /\ calls[r] = <<>>
            /\ LogOf(r) = <<>>
            /\ \A k \in DOMAIN api_keys : SameState(k)

C1_Witness ==
    \E r \in Requests :
        /\ Proxied(r)
        /\ auth[r] = <<"Bearer ", "tokB">>
        /\ response[r] = LocalResponse(401)
        /\ Eligible(api_keys, BALANCE_THRESHOLD) # {}

\* What C2 says of every state: at most 3 calls, a call is issued only when
\* every earlier one has been answered, no key id is called twice and the
\* ids called are exactly the excluded set, the handler has returned at most
\* one response and has returned one exactly when it is done.
C2_Safe ==
    \A r \in Requests :
        /\ Len(calls[r]) <= 3
        /\ \A i, j \in 1..Len(calls[r]) : i # j => calls[r][i] # calls[r][j]
        /\ tried_keys[r] = {calls[r][i] : i \in 1..Len(calls[r])}
        /\ Len(calls[r]) - Len(results[r]) \in {0, 1}
        /\ Len(calls[r]) > Len(results[r]) => pc[r] = "upstream"
        /\ Len(response[r]) <= 1
        /\ pc[r] = "done" <=> Len(response[r]) = 1

\* C2: a request issues at most 3 upstream calls, strictly one after
\* another, never two with the same key id (each call uses a key outside
\* the ids already tried), and every request that arrived ends with exactly
\* one response.
C2_BoundedSequentialRotation ==
    /\ []C2_Safe
    /\ \A r \in Requests : (pc[r] # "idle") ~> (pc[r] = "done")

C2_Witness ==
    \E r \in Requests :
        /\ pc[r] = "done"
        /\ results[r] = <<402, 402, 200>>
        /\ Len(response[r]) = 1

\* C3: when the call made with key K was answered 402, then by the time the
\* request is ready for its next attempt K is inactive with balance 0, K is
\* in the request's excluded set, and no 402 is returned to the client.
C3_ExhaustedKeyDrained ==
    \A r \in Requests :
        \A i \in 1..Len(results[r]) :
            (/\ results[r][i] = 402
             /\ \/ Len(calls[r]) > i
                \/ pc[r] \in {"select", "no_keys", "done"}) =>
                /\ Drained(calls[r][i])
                /\ calls[r][i] \in tried_keys[r]
                /\ \A n \in 1..Len(response[r]) :
                      response[r][n].status # 402

C3_Witness ==
    \E r \in Requests :
        /\ Len(calls[r]) = 2
        /\ results[r] = <<402>>
        /\ pc[r] = "upstream"

\* C4: a request whose first k calls (0 <= k <= 2) are answered 402 and
\* whose next call is answered completely with a status s other than 402
\* makes exactly k+1 calls, leaves exactly those k keys inactive with
\* balance 0 and every other key as it was, returns the status-s response of
\* the last key, and logs k rows "key_exhausted" then one row "ok" (s < 400)
\* or "error_<s>" (s >= 400).
C4_RotationOutcome ==
    \A r \in Requests :
        LET n == Len(results[r])
            k == n - 1
        IN (/\ pc[r] = "done"
            /\ n >= 1
            /\ ~raised[r]
            /\ results[r][n] \notin {402, RAISED}
            /\ \A i \in 1..k : results[r][i] = 402) =>
               /\ k \in 0..2
               /\ Len(calls[r]) = k + 1
               /\ \A i \in 1..k : Drained(calls[r][i])
               /\ \A id \in DOMAIN api_keys :
                     id \notin {calls[r][i] : i \in 1..k} => SameState(id)
               /\ response[r] = <<[status |-> results[r][n],
                                   key_id |-> calls[r][n]]>>
               /\ LogOf(r) =
                     [i \in 1..n |->
                        IF i <= k
                        THEN LogRow(r, "key_exhausted", calls[r][i])
                        ELSE LogRow(r, OutcomeTag(results[r][n]),
                                    calls[r][n])]

C4_Witness ==
    \E r \in Requests :
        /\ pc[r] = "done"
        /\ results[r] = <<402, 402, 400>>
        /\ ~raised[r]

\* C5: whenever the proxy answers an authenticated request with its own 503,
\* the pool holds no key that is active, has balance unknown or >= threshold
\* and was not tried by this request.
C5_503OnlyWhenNoneLeft ==
    \A r \in Requests :
        (pc[r] = "done" /\ response[r] = LocalResponse(503)) =>
            ~ \E k \in DOMAIN api_keys :
                /\ api_keys[k].is_active
                /\ \/ api_keys[k].pollen_balance = NULL
                   \/ api_keys[k].pollen_balance >= BALANCE_THRESHOLD
                /\ k \notin tried_keys[r]

\* C6: an authenticated request all of whose calls are answered 402 (also
\* when it made none because selection found no key) is answered 503; its
\* last request_log row is "no_keys" with no key id and the request's token
\* id; the keys that answered 402 are inactive with balance 0 and every
\* other key is as it was.
C6_ExhaustionTerminal ==
    \A r \in Requests :
        (/\ pc[r] = "done"
         /\ Proxied(r)
         /\ ValidBearer(auth[r])
         /\ ~raised[r]
         /\ \A i \in 1..Len(results[r]) : results[r][i] = 402) =>
            /\ response[r] = LocalResponse(503)
            /\ LogOf(r) # <<>>
            /\ LogOf(r)[Len(LogOf(r))] = LogRow(r, "no_keys", NULL)
            /\ \A k \in Exhausted(r) : Drained(k)
            /\ OthersUntouched

C6_Witness ==
    \E r \in Requests :
        /\ pc[r] = "done"
        /\ results[r] = <<402, 402>>
        /\ response[r] = LocalResponse(503)
        /\ \E k \in DOMAIN api_keys : k \notin Exhausted(r)

\* C7: when a call made with key K ends in a transport exception, the
\* request logs "exception" for K, answers 502, makes no further call, and
\* leaves K and every key that answered no 402 as they were.
C7_TransportFailure ==
    \A r \in Requests :
        raised[r] =>
            LET n == Len(calls[r])
            IN /\ pc[r] \in {"log_exception", "done"}
               /\ n >= 1
               /\ Len(results[r]) = n
               /\ \A i \in 1..(n - 1) : results[r][i] = 402
               /\ results[r][n] # 402
               /\ SameState(calls[r][n])
               /\ OthersUntouched
               /\ pc[r] = "done" =>
                     /\ response[r] = LocalResponse(502)
                     /\ LogOf(r)[Len(LogOf(r))] =
                           LogRow(r, "exception", calls[r][n])

C7_Witness ==
    \E r \in Requests :
        /\ pc[r] = "done"
        /\ results[r] = <<402, RAISED>>
        /\ response[r] = LocalResponse(502)

\* C8: an upstream answer with a status other than 402 ends the rotation:
\* no call follows it, and the key that gave it (like every key that
\* answered no 402) keeps its active flag and balance.
C8_Non402Terminal ==
    \A r \in Requests :
        \A i \in 1..Len(results[r]) :
            results[r][i] \notin {402, RAISED} =>
                /\ i = Len(calls[r])
                /\ pc[r] \in {"log_status", "relay", "log_exception", "done"}
                /\ SameState(calls[r][i])
                /\ OthersUntouched

C8_Witness ==
    \E r \in Requests :
        /\ pc[r] = "done"
        /\ results[r] = <<402, 400>>
        /\ response[r] = <<[status |-> 400, key_id |-> calls[r][2]]>>
        /\ api_keys[calls[r][2]].is_active


\* The keys a call get_active_key(threshold, exclude_ids) may choose from:
\* active, balance unknown or >= threshold, id not excluded.
Candidates ==
    {id \in DOMAIN api_keys :
        /\ api_keys[id].is_active
        /\ \/ api_keys[id].pollen_balance = NULL
           \/ api_keys[id].pollen_balance >= BALANCE_THRESHOLD
        /\ id \notin sel.exclude_ids}

\* C9: get_active_key returns a key only if it is active, its balance is
\* unknown or >= threshold and its id is not excluded; no other such key
\* has a known balance strictly greater than the returned key's known
\* balance; it returns none exactly when no key meets the three conditions.
C9_SelectBest ==
    sel.called =>
        IF sel.result = NoRow
        THEN Candidates = {}
        ELSE /\ sel.result.id \in Candidates
             /\ sel.result = api_keys[sel.result.id]
             /\ \A d \in Candidates :
                   ~ /\ api_keys[d].pollen_balance # NULL
                     /\ sel.result.pollen_balance # NULL
                     /\ api_keys[d].pollen_balance
                           > sel.result.pollen_balance

C9_Witness ==
    /\ sel.called
    /\ DOMAIN api_keys = 1..3
    /\ api_keys[1].is_active /\ api_keys[1].pollen_balance = 1
    /\ api_keys[2].is_active /\ api_keys[2].pollen_balance = 2
    /\ ~api_keys[3].is_active /\ api_keys[3].pollen_balance = 2
    /\ sel.exclude_ids = {}
    /\ sel.result.id = 2

BoundTunnel(r, k) ==
    /\ api_keys[calls[r][k]].vless_id # NULL
    /\ api_keys[calls[r][k]].vless_id \in DOMAIN vless_configs

TunnelOf(r, k) == vless_configs[api_keys[calls[r][k]].vless_id]

\* C11 as stated: every upstream call whose key is bound to an active
\* tunnel of config index c goes through port 10801 + c, and every other
\* call is direct.
C11_RoutedThroughBoundTunnel ==
    \A r \in Requests : \A k \in DOMAIN calls[r] :
        IF BoundTunnel(r, k) /\ TunnelOf(r, k).is_active
        THEN connector[r][k] = 10801 + TunnelOf(r, k).config_index
        ELSE connector[r][k] = NULL

\* C11 amended: every upstream call whose key is bound to a stored tunnel
\* of config index c goes through port 10801 + c when the daemon is running
\* at the time of the call; a call whose key is unbound or bound to a
\* removed tunnel, and every call made while the daemon is not running, is
\* direct.
C11_RoutedWhenDaemonRuns ==
    \A r \in Requests : \A k \in DOMAIN calls[r] :
        IF BoundTunnel(r, k) /\ is_xray_running
        THEN connector[r][k] = 10801 + TunnelOf(r, k).config_index
        ELSE connector[r][k] = NULL

\* One request made a call through the port of a tunnel of index 1 and then
\* a direct call with an unbound key.
C11_Witness ==
    \E r \in Requests :
        /\ Len(calls[r]) >= 2
        /\ BoundTunnel(r, 1)
        /\ TunnelOf(r, 1).config_index = 1
        /\ connector[r][1] = 10802
        /\ api_keys[calls[r][2]].vless_id = NULL
        /\ connector[r][2] = NULL

\* ---- C12 -----------------------------------------------------------------

\* The inbounds of the process the handle names.
RunningInbounds == procs[_xray_process].config.inbounds

\* The outbounds of that process.
RunningOutbounds == procs[_xray_process].config.outbounds

\* The daemon runs with the configuration generate_xray_config gives for
\* the stored active tunnels.
RunsCurrentConfig ==
    /\ is_xray_running
    /\ \E urls \in get_active_vless_urls(vless_configs) :
          procs[_xray_process].config = generate_xray_config(urls)

\* C12: whenever the daemon runs with the configuration generated from the
\* current active tunnel list, every active tunnel of config index c is
\* served by the inbound on port 10801 + c: that inbound exists and its
\* outbound leads to the tunnel's host.  (Stated for tables whose URLs the
\* parser accepts; a stored URL it rejects is the subject of C26.)
C12_PortFollowsConfigIndex ==
    (/\ RunsCurrentConfig
     /\ \A id \in DOMAIN vless_configs :
           parse_vless_url(vless_configs[id].url) # NoDescriptor)
    => \A id \in DOMAIN vless_configs :
          vless_configs[id].is_active =>
             \E i \in DOMAIN RunningInbounds :
                /\ RunningInbounds[i].port
                      = 10801 + vless_configs[id].config_index
                /\ RunningOutbounds[i].address
                      = parse_vless_url(vless_configs[id].url).host

\* ---- C13 -----------------------------------------------------------------

\* C13: no two credentials of the pool have the same index, and the row an
\* admission adds carries the index max + 1 of the pool it is added to (0
\* for an empty pool), whatever the interleaving of admissions and
\* removals.
C13_UniqueSequentialIndex ==
    /\ [](\A a, b \in DOMAIN api_keys :
            a # b => api_keys[a].key_index # api_keys[b].key_index)
    /\ [][\A id \in DOMAIN api_keys' \ DOMAIN api_keys :
            api_keys'[id].key_index = next_key_index(api_keys)]_vars

\* ---- C14 -----------------------------------------------------------------

\* C14: no two stored tunnels have the same config index, whatever the
\* interleaving of admissions and removals.
C14_OneTunnelPerIndex ==
    \A a, b \in DOMAIN vless_configs :
        a # b => vless_configs[a].config_index
                    # vless_configs[b].config_index

\* ---- C15 -----------------------------------------------------------------

\* Task t runs the INSERT of add_api_key in this step.
Inserts(t) ==
    /\ task[t].pc = "add_api_key_insert"
    /\ task'[t].pc = "returned"

\* The credential that holds the secret task t admits.
HoldsSecret(t, id) == api_keys[id].key = task[t].key

\* C15: an admission whose secret a credential of the pool already holds
\* leaves the pool as it was, whatever tunnel id it was given: no row is
\* added and no column of any row changes.
C15_AdmitIdempotent ==
    [][\A t \in Admins :
          (Inserts(t) /\ \E id \in DOMAIN api_keys : HoldsSecret(t, id))
              => api_keys' = api_keys]_vars

\* An admission has returned whose secret is held by a credential with
\* another binding and another index than the call would have given it.
C15_Witness ==
    \E t \in Admins : \E id \in DOMAIN api_keys :
        /\ task[t].op = "add_api_key"
        /\ task[t].pc = "returned"
        /\ HoldsSecret(t, id)
        /\ task[t].vless_id # NULL
        /\ api_keys[id].vless_id = NULL
        /\ api_keys[id].key_index # task[t].next_index
        /\ Cardinality(DOMAIN api_keys) = 2

\* ---- C16 -----------------------------------------------------------------

\* C16: the tunnel binding of every credential is empty or names a stored
\* tunnel, after any sequence of admissions, rebinds and tunnel removals.
C16_NoDanglingBinding ==
    \A id \in DOMAIN api_keys :
        \/ api_keys[id].vless_id = NULL
        \/ api_keys[id].vless_id \in DOMAIN vless_configs

\* ---- C17 -----------------------------------------------------------------

\* Task t is inside restart_xray(urls): suspended in the stop_xray that
\* start_xray calls, at the launch, at the verification wait or at the read
\* of the exited process's stderr.
InRestart(t) ==
    /\ task[t].pc \in {"stop_wait", "spawn", "verify", "read_stderr"}
    /\ task[t].urls # <<>>

\* C17: at most one restart of the daemon is in flight at any time; the
\* steps of a restart run by a handler never interleave with those of a
\* restart run by the loop or by another handler.
C17_OneRestartInFlight ==
    \A a, b \in Tasks : (InRestart(a) /\ InRestart(b)) => a = b

\* ---- C18 -----------------------------------------------------------------

\* Task t's restart_xray reports success in this step.
ReportsSuccess(t) ==
    /\ task[t].pc = "verify"
    /\ task'[t].pc \notin {"verify", "read_stderr"}
    /\ task'[t].ok = "True"

\* C18: the tunnel count changes only when a restart reports success, and
\* is then the number of inbounds of the configuration the process of that
\* restart was launched with; a failed restart and a stop leave it as it
\* was.
C18_CountOfLastLaunch ==
    [][/\ \A t \in Tasks :
             ReportsSuccess(t)
                => _xray_tunnel_count'
                      = Len(procs[task[t].h].config.inbounds)
       /\ _xray_tunnel_count' # _xray_tunnel_count
             => \E t \in Tasks : ReportsSuccess(t)]_vars

\* ---- C19 -----------------------------------------------------------------

\* Task t's start_xray ends in this step without having started the
\* daemon: the launch raised, or the process was found exited (or the
\* handle empty) after the verification wait.
StartFails(t) ==
    /\ task[t].pc \in {"spawn", "verify", "read_stderr"}
    /\ task'[t].pc \notin {"spawn", "verify", "read_stderr"}
    /\ task'[t].ok # "True"

\* C19: when the daemon fails to start during a restart, restart_xray
\* returns False, the daemon is not running afterwards, and the connector
\* of a key bound to a tunnel is the direct one.
C19_FailedStartLeavesDirect ==
    [][\A t \in Tasks :
          StartFails(t)
             => /\ task'[t].ok = "False"
                /\ ~is_xray_running'
                /\ \A index \in 0..MaxOps :
                      _get_connector(index)' = NULL]_vars

\* ---- C20 -----------------------------------------------------------------

\* The loop has swept its keys and reads the desired URLs in this step.
SweepEnds ==
    /\ task["loop"].pc = "get_urls"
    /\ task'["loop"].pc # "get_urls"

\* The daemon is not running, or was launched with another count than the
\* number of active tunnel URLs.
Drift ==
    \/ ~is_xray_running
    \/ \A urls \in get_active_vless_urls(vless_configs) :
          Len(urls) # _xray_tunnel_count

\* The loop has called restart_xray: it is inside it, or restart_xray has
\* returned False at once.
RestartTriggered ==
    \/ task'["loop"].pc \in {"stop_wait", "spawn"}
    \/ task'["loop"].ok = "False"

\* C20: at the end of a sweep, when the daemon is not running or its count
\* differs from the number of active tunnel URLs, the loop calls
\* restart_xray in that cycle, also when there is no active tunnel URL.
C20_SweepEndRestartsOnDrift ==
    [][(SweepEnds /\ Drift) => RestartTriggered]_vars

\* ---- C21 -----------------------------------------------------------------

\* C21: a cycle leaves the balance of every key alone that was inactive
\* when the cycle read the pool.
C21_InactiveKeysUntouched ==
    [][\A i \in DOMAIN task["loop"].keys :
          ~task["loop"].keys[i].is_active
             => api_keys'[task["loop"].keys[i].id].pollen_balance
                   = api_keys[task["loop"].keys[i].id].pollen_balance]_vars

\* ---- C22 -----------------------------------------------------------------

\* The row, as the cycle read it, of the key the loop is at.
Probed == task["loop"].keys[task["loop"].i]

\* The loop passes the await it is suspended at in this step (no exception,
\* no cancellation).
Passes(at) ==
    /\ task["loop"].pc = at
    /\ task'["loop"] # task["loop"]
    /\ task'["loop"].pc \notin {"raised", "done"}

\* The balance now stored for key id is known and below the threshold.
StoredLow(keys, id) ==
    /\ keys[id].pollen_balance # NULL
    /\ keys[id].pollen_balance < BALANCE_THRESHOLD

\* C22: the loop deactivates a key exactly when its probe gave a known
\* balance strictly below the threshold and the key was read as active; the
\* write of a probed balance changes no active flag, and no step of the
\* loop sets a key active.
C22_DeactivatedIffLowAndActive ==
    [][/\ \A id \in DOMAIN api_keys :
             api_keys'[id].is_active => api_keys[id].is_active
       /\ Passes("probe")
             => /\ \A id \in DOMAIN api_keys :
                      api_keys'[id].is_active = api_keys[id].is_active
                /\ task'["loop"].pc = "deactivate"
                      <=> (StoredLow(api_keys', Probed.id)
                             /\ Probed.is_active)
       /\ Passes("deactivate") => ~api_keys'[Probed.id].is_active
       /\ \A id \in DOMAIN api_keys :
             (api_keys[id].is_active /\ ~api_keys'[id].is_active)
                => /\ task["loop"].pc = "deactivate"
                   /\ id = Probed.id
                   /\ StoredLow(api_keys, id)
                   /\ Probed.is_active]_vars

\* A sweep has ended in which one key was probed low and deactivated and
\* another, whose probe failed, kept its flag.
C22_Witness ==
    /\ task["loop"].pc = "get_urls"
    /\ \E a, b \in DOMAIN api_keys :
          /\ keys0[a].is_active
          /\ ~api_keys[a].is_active
          /\ api_keys[a].pollen_balance = 0
          /\ keys0[b].is_active
          /\ keys0[b].pollen_balance # NULL
          /\ api_keys[b].is_active
          /\ api_keys[b].pollen_balance = NULL

\* ---- C23 -----------------------------------------------------------------

\* C23: an exception in a cycle does not end the loop: the loop ends only
\* once main() has cancelled it, and after every failed cycle the loop is
\* back at the sleep that begins the next cycle, unless it was cancelled.
C23_LoopSurvivesExceptions ==
    /\ [](task["loop"].pc = "done" => task["main"].pc # "polling")
    /\ (task["loop"].pc = "raised")
          ~> (task["loop"].pc = "sleep" \/ task["main"].pc # "polling")

\* The second cycle probes its first key after the first cycle failed: that
\* cycle wrote the low balance of key 1 and never deactivated it.
C23_Witness ==
    /\ ncycles = 2
    /\ task["main"].pc = "polling"
    /\ task["loop"].pc = "probe"
    /\ task["loop"].i = 1
    /\ Probed.id = 1
    /\ keys0[1].is_active
    /\ keys0[1].pollen_balance = NULL
    /\ api_keys[1].is_active
    /\ api_keys[1].pollen_balance = 0

\* ---- C24 -----------------------------------------------------------------

\* C24: the loop ends only from between two cycles (from the sleep that
\* begins a cycle or from the sleep of the except clause), never from
\* inside a sweep; and once main() has cancelled it the loop has ended.
C24_CancelBetweenCycles ==
    /\ [][(task["loop"].pc # "done" /\ task'["loop"].pc = "done")
             => task["loop"].pc \in {"sleep", "raised"}]_vars
    /\ [](task["main"].pc = "stop_xray" => task["loop"].pc = "done")

\* ---- C25 -----------------------------------------------------------------

\* C25: a call of the parser returns a descriptor or None, it never raises;
\* and it returns None when the URL does not begin with vless:// or holds
\* no "@".
C25_ParserTotal ==
    sel.call = "parse_vless_url"
       => /\ sel.result # ValueError
          /\ (\/ sel.args = <<>>
              \/ Head(sel.args) # "vless://"
              \/ FirstIndex(sel.args, "@") = 0)
                => sel.result = NoDescriptor

\* ---- C26 -----------------------------------------------------------------

\* C26: every URL stored in the tunnel table is one the parser accepts.
C26_StoredUrlsParse ==
    \A id \in DOMAIN vless_configs :
        parse_vless_url(vless_configs[id].url) \notin
            {NoDescriptor, ValueError}

\* ---- C27 -----------------------------------------------------------------

\* The list vless_urls with the elements at positions i and j exchanged.
Swapped(vless_urls, i, j) ==
    [k \in DOMAIN vless_urls |->
        IF k = i THEN vless_urls[j]
        ELSE IF k = j THEN vless_urls[i]
        ELSE vless_urls[k]]

\* C27: the configuration generated for a list of n URLs has n inbounds, n
\* outbounds and n rules; inbound i (from 0) listens on 127.0.0.1:10801+i,
\* outbound i leads to the host and port of URL i, rule i names inbound i
\* and outbound i, whose tags no other inbound or outbound carries;
\* generating again gives the same configuration; and exchanging two URLs
\* of the list exchanges the endpoints of their two ports.
C27_OnePairPerUrl ==
    sel.call = "generate_xray_config"
       => LET n == Len(sel.args)
              c == sel.result
          IN /\ c # ValueError
             /\ Len(c.inbounds) = n
             /\ Len(c.outbounds) = n
             /\ Len(c.rules) = n
             /\ \A i \in 1..n :
                   /\ c.inbounds[i].listen = "127.0.0.1"
                   /\ c.inbounds[i].port = BASE_PORT + (i - 1)
                   /\ c.outbounds[i].address = parse_vless_url(sel.args[i]).host
                   /\ c.outbounds[i].port = parse_vless_url(sel.args[i]).port
                   /\ c.rules[i].inboundTag = c.inbounds[i].tag
                   /\ c.rules[i].outboundTag = c.outbounds[i].tag
                   /\ \A j \in 1..n :
                         j # i => /\ c.inbounds[j].tag # c.inbounds[i].tag
                                  /\ c.outbounds[j].tag # c.outbounds[i].tag
             /\ generate_xray_config(sel.args) = c
             /\ \A i, j \in 1..n :
                   LET d == generate_xray_config(Swapped(sel.args, i, j))
                   IN \A k \in 1..n :
                         /\ d.inbounds[k] = c.inbounds[k]
                         /\ d.outbounds[k].address
                               = c.outbounds[IF k = i THEN j
                                             ELSE IF k = j THEN i
                                             ELSE k].address
                         /\ d.outbounds[k].port
                               = c.outbounds[IF k = i THEN j
                                             ELSE IF k = j THEN i
                                             ELSE k].port

\* ---- C28 -----------------------------------------------------------------

\* C28: in a generated configuration, the outbound of a descriptor whose
\* transport is none of tcp, ws, grpc or whose security is none of none,
\* tls, reality has the network tcp and the security none.
C28_UnknownDegradesToPlain ==
    (/\ sel.call = "generate_xray_config"
     /\ sel.result # ValueError)
       => \A i \in DOMAIN sel.result.outbounds :
             (\/ ParsedConfigs(sel.args)[i].type
                    \notin {<<"tcp">>, <<"ws">>, <<"grpc">>}
              \/ ParsedConfigs(sel.args)[i].security
                    \notin {<<"none">>, <<"tls">>, <<"reality">>})
                => /\ sel.result.outbounds[i].streamSettings.network
                         = <<"tcp">>
                   /\ sel.result.outbounds[i].streamSettings.security
                         = <<"none">>

\* ---- C29 -----------------------------------------------------------------

\* C29: the forwarded headers hold no hop-by-hop header, hold exactly one
\* Authorization header, whose value is "Bearer " and the selected key and
\* not what the client sent as Authorization, and hold every other header
\* line of the client with its value.
C29_ForwardedHeaders ==
    sel.call = "_forward_headers"
       => LET request_headers == sel.args.request_headers
              headers == sel.result
          IN /\ \A k \in DOMAIN headers : lower(k) \notin HOP_BY_HOP
             /\ Cardinality({k \in DOMAIN headers :
                                lower(k) = "authorization"}) = 1
             /\ headers["Authorization"] = "Bearer " \o sel.args.api_key
             /\ \A i \in DOMAIN request_headers :
                   lower(request_headers[i][1]) = "authorization"
                      => headers["Authorization"] # request_headers[i][2]
             /\ \A i \in DOMAIN request_headers :
                   lower(request_headers[i][1])
                         \notin HOP_BY_HOP \cup {"authorization"}
                      => /\ request_headers[i][1] \in DOMAIN headers
                         /\ headers[request_headers[i][1]]
                               = request_headers[i][2]

\* ---- C30 -----------------------------------------------------------------

\* Request r got a 402 for key k and has run the three statements that
\* follow it.
Handled(r, k) ==
    /\ k \in Exhausted(r)
    /\ ~(key_data[r].id = k
         /\ pc[r] \in {"deactivate", "zero_balance", "log_exhausted"})

\* The key_exhausted rows request r logged for key k.
ExhaustedRows(r, k) ==
    {i \in DOMAIN LogOf(r) : /\ LogOf(r)[i].status = "key_exhausted"
                             /\ LogOf(r)[i].key_id = k}

\* C30: once two requests that both got a 402 for key K have both run the
\* statements that follow it, in whatever order, K is inactive with balance
\* 0, every key that answered no 402 is as it was, and each of the two has
\* logged one key_exhausted row for K; and the request that logs the row
\* returns no response: it goes on to its next selection, or to the end of
\* the loop after its third pass.
C30_ConcurrentExhaustion ==
    /\ [](\A k \in DOMAIN api_keys :
             (\A r \in Requests : Handled(r, k))
                => /\ Drained(k)
                   /\ OthersUntouched
                   /\ \A r \in Requests :
                         /\ Cardinality(ExhaustedRows(r, k)) = 1
                         /\ k \in tried_keys[r])
    /\ [][\A r \in Requests :
             (pc[r] = "log_exhausted" /\ pc'[r] # "log_exhausted")
                => /\ response'[r] = response[r]
                   /\ attempt'[r] = attempt[r] + 1
                   /\ pc'[r] = IF attempt'[r] < MAX_ATTEMPTS
                               THEN "select" ELSE "no_keys"]_vars

\* Both requests selected key 1 while it was active and got a 402, request
\* 2 logged the exhaustion before request 1 did, and both were then
\* answered by key 2.
C30_Witness ==
    /\ \A r \in Requests :
          /\ pc[r] = "done"
          /\ calls[r] = <<1, 2>>
          /\ results[r] = <<402, 200>>
    /\ SubSeq(log_req, 1, 2) = <<2, 1>>
    /\ Drained(1)

\* ---- C31 -----------------------------------------------------------------

\* C31: no step sets a balance that is known back to unknown.
C31_KnownBalanceStaysKnown ==
    [][\A id \in DOMAIN api_keys :
          (id \in DOMAIN api_keys' /\ api_keys[id].pollen_balance # NULL)
             => api_keys'[id].pollen_balance # NULL]_vars

\* ---- C32 -----------------------------------------------------------------

\* C32: at most one launched process is alive, and a launched process that
\* is alive is the one the handle holds.
C32_OneProcessInHandle ==
    /\ Cardinality({h \in DOMAIN procs : procs[h].alive}) <= 1
    /\ \A h \in DOMAIN procs : procs[h].alive => _xray_process = h

\* ---- C34 -----------------------------------------------------------------

\* C34: the rows an authenticated proxied request has logged are at most 3
\* key_exhausted rows and then, when it is done, one row more, which is the
\* last and is no key_exhausted row; there is one row per upstream call,
\* and one more when the response is 503; and every row but the no_keys
\* row carries the id of the key of its call.
C34_LogShape ==
    \A r \in Requests :
        (Proxied(r) /\ ValidBearer(auth[r])) =>
            /\ \A i \in 1..(Len(LogOf(r)) - 1) :
                  LogOf(r)[i].status = "key_exhausted"
            /\ Cardinality({i \in DOMAIN LogOf(r) :
                               LogOf(r)[i].status = "key_exhausted"}) <= 3
            /\ \A i \in DOMAIN LogOf(r) :
                  LogOf(r)[i].status # "no_keys"
                     => /\ i \in DOMAIN calls[r]
                        /\ LogOf(r)[i].key_id = calls[r][i]
            /\ pc[r] = "done"
                  => /\ LogOf(r) # <<>>
                     /\ LogOf(r)[Len(LogOf(r))].status
                           \in {"ok", "error_400", "exception", "no_keys"}
                     /\ Len(LogOf(r))
                           = Len(calls[r])
                             + (IF response[r] = LocalResponse(503)
                                THEN 1 ELSE 0)

\* ---- C33 -----------------------------------------------------------------

\* Some request got a 402 for key k and has run deactivate_key for it.
Deactivated402(k) ==
    \E r \in Requests :
        /\ k \in Exhausted(r)
        /\ ~(key_data[r].id = k /\ pc[r] = "deactivate")

\* C33: no step of a request, of the loop, of the administrator's refresh or
\* of an admission turns the flag of a key from inactive to active, and no
\* selection returns a key that a 402 has deactivated.
C33_DeactivationMonotone ==
    [][/\ \A id \in DOMAIN api_keys :
             (id \in DOMAIN api_keys' /\ ~api_keys[id].is_active)
                => ~api_keys'[id].is_active
       /\ \A r \in Requests :
             calls'[r] # calls[r]
                => ~Deactivated402(calls'[r][Len(calls'[r])])]_vars

\* The first request got a 402 for key 1 and ran the statements that follow
\* it, a later probe wrote a sufficient balance for the key, which is still
\* inactive, and the second request was answered without calling it.
C33_Witness ==
    /\ Handled(1, 1)
    /\ ~api_keys[1].is_active
    /\ api_keys[1].pollen_balance = BALANCE_THRESHOLD
    /\ pc[2] = "done"
    /\ \A i \in DOMAIN calls[2] : calls[2][i] # 1

\* ---- C35 -----------------------------------------------------------------

\* Some stored tunnel is active.
SomeActiveTunnel ==
    \E id \in DOMAIN vless_configs : vless_configs[id].is_active

\* C35: once the administrator has stopped changing the tunnels, launches
\* succeeding and the loop running, from some moment on the daemon runs,
\* whenever there is an active tunnel, with the configuration generated from
\* the active tunnels in config-index order.
C35_Converges == <>[](SomeActiveTunnel => RunsCurrentConfig)

\* ---- C36 -----------------------------------------------------------------

\* Task t (the loop or the administrator's refresh) waits for the probe of
\* key k, the first key of its sweep, sent when it read the key list, and
\* that list shows k active: the probe started before deactivate_key ran
\* for k.
StaleProbe(t, k) ==
    /\ task[t].pc = "probe"
    /\ task[t].i = 1
    /\ task[t].keys[1].id = k
    /\ task[t].keys[1].is_active
    /\ ~api_keys[k].is_active

\* C36: when a request got a 402 for key k and has left it inactive with
\* balance 0, the step in which a probe of k that started before the
\* exhaustion was recorded returns leaves k inactive with balance 0.
C36_StaleProbeKeepsDrained ==
    [][\A t \in {"loop", "admin1"} : \A k \in DOMAIN api_keys :
          (/\ \E r \in Requests : Handled(r, k)
           /\ Drained(k)
           /\ StaleProbe(t, k)
           /\ task'[t] # task[t])
             => /\ ~api_keys'[k].is_active
                /\ api_keys'[k].pollen_balance = 0]_vars

\* ---- fairness ---------------------------------------------------------------

FairSpec == Spec /\ WF_vars(proxy_handler(1))

====
